---- MODULE Spec2Model ----
(***************************************************************************)
(* A model of openaddresses/batch-machine: the conform engine               *)
(* (src/openaddr/conform.py), the process_one pipeline                      *)
(* (src/openaddr/process_one.py) and the conform wrapper                    *)
(* (src/openaddr/__init__.py).                                              *)
(*                                                                          *)
(* Text values are sequences of one-character strings, so that strip,       *)
(* startswith, endswith and join are computed as the code computes them.    *)
(* Python's None is the value None below.  A dict is a function whose       *)
(* DOMAIN is the set of keys present; a dict whose order matters (the       *)
(* conform object, iterated with .items()) is a sequence of <<key, value>>  *)
(* pairs.  A call that may raise returns a record [err, row]: err = ""      *)
(* is a normal return, otherwise err names the exception raised.            *)
(***************************************************************************)
EXTENDS Integers, Sequences, FiniteSets, TLC

VARIABLES
    source_config,  \* the SourceConfig in use: [layer, data_source]
    runs,           \* the calls of row_transform_and_convert made so far
    find_ds,        \* convert: the data source whose payload file is looked for
    source_paths,   \* convert: the decompressed paths, in listing order
    found,          \* convert: what find_source_path and convert returned
    test_result,    \* check_source_tests: its position in the loop and its verdict
    payload,        \* the contents of the source file: field names and features
    cli,            \* conform_cli: its position, loop index, writer and outcome
    extract_csv,    \* the rows of the intermediate extracted CSV
    out_csv,        \* the rows of the output CSV
    logged,         \* the lines logged on 'openaddr', as LEVEL: message
    files,          \* the files and directories that exist, as [dir, path]
    proc,           \* process: its position, its locals and the state written
    job,            \* process: the source file and what downloading it gives
    query_fields,   \* EsriRestDownloadTask.download: the field names it requests
    sig             \* a call of a function decorated with timeout: its position,
                    \* the SIGALRM handler installed and the alarm pending

rowVars == <<source_config, runs>>

findVars == <<find_ds, source_paths, found>>

testVars == <<test_result>>

cliVars == <<payload, cli, extract_csv, out_csv, logged, files>>

procVars == <<proc, job>>

esriVars == <<query_fields>>

jobVars == <<sig>>

vars == <<source_config, runs, find_ds, source_paths, found, test_result,
          payload, cli, extract_csv, out_csv, logged, files, proc, job, query_fields, sig>>

\* the variables of each part of the model while another part is explored
NoSourceConfig == [layer |-> "", data_source |-> [conform |-> <<>>]]

IdleRow == source_config = NoSourceConfig /\ runs = <<>>

IdleTests == test_result = [called |-> FALSE]

IdleFind == find_ds = [conform |-> <<>>] /\ source_paths = <<>> /\ found = [called |-> FALSE]

NoPayload == [fieldnames |-> <<>>, features |-> <<>>, prj |-> TRUE]

NoCall == [pc |-> "idle"]

IdleCli ==
    /\ payload = NoPayload
    /\ cli = NoCall
    /\ extract_csv = <<>>
    /\ out_csv = <<>>
    /\ logged = {}
    /\ files = {}

IdleProc == proc = NoCall /\ job = [source |-> "None"]

IdleEsri == query_fields = [called |-> FALSE]

IdleJob == sig = [pc |-> "idle"]

(***************************************************************************)
(* Bounds of the model.                                                     *)
(***************************************************************************)
MaxRuns == 2

MaxRows == 1

\* timeout: the seconds the timeout may be set to, the seconds the wrapped
\* function may run for, the seconds that may pass
MaxTimeout == 2

MaxWork == 2

MaxClock == 4

MaxPaths == 3

MaxTests == 2

(***************************************************************************)
(* Text                                                                     *)
(***************************************************************************)
None == <<"None">>

S0 == <<>>

IsStr(v) == v # None

\* Python truthiness of a str-or-None value
Truthy(v) == v # None /\ v # <<>>

RECURSIVE LStripCh(_, _)
LStripCh(s, chars) ==
    IF s # <<>> /\ Head(s) \in chars THEN LStripCh(Tail(s), chars) ELSE s

RECURSIVE RStripCh(_, _)
RStripCh(s, chars) ==
    IF s # <<>> /\ s[Len(s)] \in chars
    THEN RStripCh(SubSeq(s, 1, Len(s) - 1), chars)
    ELSE s

\* str.strip(): white space off both ends
Strip(s) == RStripCh(LStripCh(s, {" ", "\n"}), {" ", "\n"})

StartsWith(s, p) == Len(p) <= Len(s) /\ SubSeq(s, 1, Len(p)) = p

EndsWith(s, p) == Len(p) <= Len(s) /\ SubSeq(s, Len(s) - Len(p) + 1, Len(s)) = p

\* sep.join(parts)
RECURSIVE JoinStr(_, _)
JoinStr(parts, sep) ==
    IF parts = <<>> THEN <<>>
    ELSE IF Len(parts) = 1 THEN parts[1]
    ELSE parts[1] \o sep \o JoinStr(Tail(parts), sep)

\* [f for f in parts if f]
NonEmpty(parts) == SelectSeq(parts, LAMBDA f : f # <<>>)

LowerTable ==
    ("N" :> "n") @@ ("S" :> "s") @@ ("S2" :> "s2") @@ ("U" :> "u") @@
    ("NUMBER" :> "number") @@ ("STREET" :> "street") @@ ("UNIT" :> "unit") @@
    ("CITY" :> "city") @@ ("DISTRICT" :> "district") @@ ("REGION" :> "region") @@
    ("POSTCODE" :> "postcode") @@ ("ID" :> "id") @@ ("PID" :> "pid") @@
    ("GEOM" :> "geom") @@ ("HASH" :> "hash") @@ ("Number" :> "number") @@
    ("OA:GEOM" :> "oa:geom") @@ ("LAT" :> "lat") @@ ("LON" :> "lon") @@
    (".SHP" :> ".shp") @@ (".CSV" :> ".csv") @@ ("OA:geom" :> "oa:geom") @@
    ("V" :> "v") @@ ("X" :> "x") @@ ("Street" :> "street")

\* str.lower() on the names the model uses
Lower(s) == IF s \in DOMAIN LowerTable THEN LowerTable[s] ELSE s

UpperTable ==
    ("number" :> "NUMBER") @@ ("street" :> "STREET") @@ ("unit" :> "UNIT") @@
    ("city" :> "CITY") @@ ("district" :> "DISTRICT") @@ ("region" :> "REGION") @@
    ("postcode" :> "POSTCODE") @@ ("id" :> "ID") @@ ("pid" :> "PID") @@
    ("Number" :> "NUMBER") @@ ("n" :> "N") @@ ("s" :> "S") @@ ("s2" :> "S2") @@
    ("u" :> "U") @@ ("lat" :> "LAT") @@ ("lon" :> "LON") @@ ("v" :> "V") @@
    ("format" :> "FORMAT") @@ ("file" :> "FILE") @@ ("srs" :> "SRS") @@
    ("fingerprint" :> "FINGERPRINT") @@ ("type" :> "TYPE")

\* str.upper() on the names the model uses
Upper(s) == IF s \in DOMAIN UpperTable THEN UpperTable[s] ELSE s

(***************************************************************************)
(* Dicts                                                                    *)
(***************************************************************************)
EmptyRow == [k \in {} |-> <<>>]

Get(row, k) == IF k \in DOMAIN row THEN row[k] ELSE None

Put(row, k, v) == [x \in (DOMAIN row) \cup {k} |-> IF x = k THEN v ELSE row[x]]

Ok(row) == [err |-> "", row |-> row]

Raise(e) == [err |-> e, row |-> EmptyRow]

\* the conform object: a sequence of <<key, value>> pairs in insertion order;
\* a value is [t |-> "str", s |-> name], [t |-> "list", l |-> names] or
\* [t |-> "dict", d |-> function node]
NoEntry == [t |-> "none"]

ConformKeys(c) == {c[i][1] : i \in 1..Len(c)}

ConformGet(c, k) ==
    IF k \in ConformKeys(c)
    THEN (CHOOSE p \in {c[i] : i \in 1..Len(c)} : p[1] = k)[2]
    ELSE NoEntry

(***************************************************************************)
(* Schemas                                                                  *)
(***************************************************************************)
GEOM_FIELDNAME == "OA:GEOM"

ADDRESSES_SCHEMA ==
    <<"NUMBER", "STREET", "UNIT", "CITY", "DISTRICT", "REGION", "POSTCODE", "ID">>

PARCELS_SCHEMA == <<"PID">>

\* SourceConfig.SCHEMA as set by the constructor from the layer
SCHEMA(layer) ==
    IF layer = "addresses" THEN ADDRESSES_SCHEMA
    ELSE IF layer = "parcels" THEN PARCELS_SCHEMA
    ELSE <<>>

SeqSet(s) == {s[i] : i \in 1..Len(s)}

InSchema(layer, k) == k \in SeqSet(SCHEMA(layer))

(***************************************************************************)
(* Row functions (conform.py).  sc is the SourceConfig: a record with the   *)
(* fields layer and data_source; data_source is a record with conform and,  *)
(* when present, fingerprint, test, ...                                     *)
(***************************************************************************)
OaKey(key) == "oa:" \o key

\* row_smash_case: every key lower-cased
row_smash_case(input) ==
    [k \in {Lower(x) : x \in DOMAIN input} |->
        input[CHOOSE x \in DOMAIN input : Lower(x) = k]]

\* [row[field] for field in names] raises KeyError on any absent field
AllPresent(row, names) == \A i \in 1..Len(names) : names[i] \in DOMAIN row

\* a fault: the merged value is also stored under the key itself
row_merge_both_keys(sc, row, key) ==
    LET names == ConformGet(sc.data_source.conform, key).l
        merge_data == [i \in 1..Len(names) |-> row[names[i]]]
    IN  IF ~AllPresent(row, names) THEN Raise("KeyError")
        ELSE IF \E i \in 1..Len(names) : merge_data[i] = None THEN Raise("TypeError")
        ELSE Ok(Put(Put(row, OaKey(key), JoinStr(merge_data, <<" ">>)),
                    key, JoinStr(merge_data, <<" ">>)))

\* row_merge: 'Maple','St' to 'Maple St'; ' '.join raises TypeError on None
row_merge(sc, row, key) ==
    LET names == ConformGet(sc.data_source.conform, key).l
        merge_data == [i \in 1..Len(names) |-> row[names[i]]]
    IN  IF ~AllPresent(row, names) THEN Raise("KeyError")
        ELSE IF \E i \in 1..Len(names) : merge_data[i] = None THEN Raise("TypeError")
        ELSE Ok(Put(row, OaKey(key), JoinStr(merge_data, <<" ">>)))

\* row_fxn_join: any exception is logged at debug level and the row is
\* returned as it was
row_fxn_join(sc, row, key, fxn) ==
    LET separator == IF "separator" \in DOMAIN fxn THEN fxn.separator ELSE <<" ">>
    IN  IF "fields" \notin DOMAIN fxn \/ ~AllPresent(row, fxn.fields)
        THEN Ok(row)
        ELSE LET fields == [i \in 1..Len(fxn.fields) |->
                               IF Truthy(row[fxn.fields[i]])
                               THEN Strip(row[fxn.fields[i]]) ELSE <<>>]
             IN  Ok(Put(row, OaKey(key), JoinStr(NonEmpty(fields), separator)))

\* The regular expressions of the model, by their pattern text, and what
\* pattern.search(s) followed by ''.join(match.groups()) gives for each.
PatFirstWord == "^(\\S+)"
PatAfterFirstWord == "^(?:\\S+ )(.*)"
PatInvalid == "("
ValidPatterns == {PatFirstWord, PatAfterFirstWord}

RECURSIVE WordLen(_)
WordLen(s) == IF s = <<>> \/ Head(s) = " " THEN 0 ELSE 1 + WordLen(Tail(s))

SearchGroups(pattern, s) ==
    LET n == WordLen(s)
    IN  IF pattern = PatFirstWord
        THEN SubSeq(s, 1, n)
        ELSE IF n > 0 /\ n < Len(s) THEN SubSeq(s, n + 2, Len(s)) ELSE <<>>

\* row_fxn_regexp (without a replace string): re.compile raises TypeError
\* on a missing pattern and re.error on an invalid one, before the row is
\* read; row[fxn["field"]] raises KeyError; search(None) raises TypeError
row_fxn_regexp(sc, row, key, fxn) ==
    IF "pattern" \notin DOMAIN fxn THEN Raise("TypeError")
    ELSE IF fxn.pattern \notin ValidPatterns THEN Raise("re.error")
    ELSE IF "field" \notin DOMAIN fxn \/ fxn.field \notin DOMAIN row THEN Raise("KeyError")
    ELSE IF row[fxn.field] = None THEN Raise("TypeError")
    ELSE Ok(Put(row, OaKey(key), SearchGroups(fxn.pattern, row[fxn.field])))

\* The house-number patterns.  No value explored holds "/", a line break
\* or a unit word (UNIT, APT, SUITE, ...), so the fraction alternative and
\* the unit words of the patterns never match; units start with "#".
Letters ==
    {"a", "b", "c", "d", "e", "f", "g", "h", "i", "j", "k", "l", "m", "n", "o", "p", "q",
     "r", "s", "t", "u", "v", "w", "x", "y", "z", "A", "B", "C", "D", "E", "F", "G", "H", "I",
     "J", "K", "L", "M", "N", "O", "P", "Q", "R", "S", "T", "U", "V", "W", "X", "Y", "Z"}

IsDigits(w) == w # <<>> /\ \A i \in 1..Len(w) : w[i] \in {"0", "1", "2", "3", "4", "5", "6", "7", "8", "9"}

\* \d+ | \d+-\d+ | \d+-?[A-Z], ignoring case
NumberToken(w) ==
    \/ IsDigits(w)
    \/ \E d \in 1..(Len(w) - 1) :
          /\ IsDigits(SubSeq(w, 1, d))
          /\ \/ w[d + 1] = "-" /\ IsDigits(SubSeq(w, d + 2, Len(w)))
             \/ d + 1 = Len(w) /\ w[d + 1] \in Letters
             \/ d + 2 = Len(w) /\ w[d + 1] = "-" /\ w[d + 2] \in Letters

\* ^\s*(token)\s+ on s: whether it matches, the token, and what follows
\* the white space after it
NumberPrefix(s) ==
    LET t == LStripCh(s, {" "})
        n == IF t = <<>> \/ Head(t) = " " THEN 0
             ELSE CHOOSE m \in 1..Len(t) :
                      /\ \A i \in 1..m : t[i] # " "
                      /\ m = Len(t) \/ t[m + 1] = " "
    IN  [matched |-> n > 0 /\ n < Len(t) /\ NumberToken(SubSeq(t, 1, n)),
         token |-> SubSeq(t, 1, n),
         rest |-> LStripCh(SubSeq(t, n + 1, Len(t)), {" "})]

\* row_fxn_prefixed_number: '123' from '123 Maple St'
row_fxn_prefixed_number(sc, row, key, fxn) ==
    IF "field" \notin DOMAIN fxn \/ fxn.field \notin DOMAIN row THEN Raise("KeyError")
    ELSE IF row[fxn.field] = None THEN Raise("TypeError")
    ELSE Ok(Put(row, OaKey(key),
                IF NumberPrefix(row[fxn.field]).matched
                THEN NumberPrefix(row[fxn.field]).token ELSE <<>>))

\* row_fxn_postfixed_street without may_contain_units: 'Maple St' from
\* '123 Maple St', the whole value when no number starts it
row_fxn_postfixed_street(sc, row, key, fxn) ==
    IF "field" \notin DOMAIN fxn \/ fxn.field \notin DOMAIN row THEN Raise("KeyError")
    ELSE IF row[fxn.field] = None THEN Raise("TypeError")
    ELSE Ok(Put(row, OaKey(key),
                IF NumberPrefix(row[fxn.field]).matched
                THEN NumberPrefix(row[fxn.field]).rest ELSE row[fxn.field]))

\* the first white space of s that "#" and more text follow
UnitStarts(s) == { i \in 1..(Len(s) - 2) : s[i] = " " /\ s[i + 1] = "#" }

Least(S) == CHOOSE i \in S : \A j \in S : i <= j

\* row_fxn_postfixed_unit: '#300' from '123 Maple St #300'
row_fxn_postfixed_unit(sc, row, key, fxn) ==
    IF "field" \notin DOMAIN fxn \/ fxn.field \notin DOMAIN row THEN Raise("KeyError")
    ELSE IF row[fxn.field] = None THEN Raise("TypeError")
    ELSE Ok(Put(row, OaKey(key),
                IF UnitStarts(row[fxn.field]) # {}
                THEN SubSeq(row[fxn.field], Least(UnitStarts(row[fxn.field])) + 1,
                            Len(row[fxn.field]))
                ELSE <<>>))

\* row_fxn_remove_prefix
row_fxn_remove_prefix(sc, row, key, fxn) ==
    IF ~({"field", "field_to_remove"} \subseteq DOMAIN fxn)
       \/ ~({fxn.field, fxn.field_to_remove} \subseteq DOMAIN row)
    THEN Raise("KeyError")
    ELSE LET f == row[fxn.field]
             r == row[fxn.field_to_remove]
         IN  IF f = None THEN Raise("AttributeError")
             ELSE IF r = None THEN Raise("TypeError")
             ELSE IF StartsWith(f, r)
             THEN Ok(Put(row, OaKey(key), LStripCh(SubSeq(f, Len(r) + 1, Len(f)), {" "})))
             ELSE Ok(Put(row, OaKey(key), f))

\* row_fxn_remove_postfix
row_fxn_remove_postfix(sc, row, key, fxn) ==
    IF ~({"field", "field_to_remove"} \subseteq DOMAIN fxn)
       \/ ~({fxn.field, fxn.field_to_remove} \subseteq DOMAIN row)
    THEN Raise("KeyError")
    ELSE LET f == row[fxn.field]
             r == row[fxn.field_to_remove]
         IN  IF r # <<>> /\ f = None THEN Raise("AttributeError")
             ELSE IF r # <<>> /\ r = None THEN Raise("TypeError")
             ELSE IF r # <<>> /\ EndsWith(f, r)
             THEN Ok(Put(row, OaKey(key), RStripCh(SubSeq(f, 1, Len(f) - Len(r)), {" "})))
             ELSE Ok(Put(row, OaKey(key), f))

\* row_fxn_first_non_empty: the first field with a non-blank value; nothing
\* is written when there is none
RECURSIVE FirstNonEmptyLoop(_, _, _)
FirstNonEmptyLoop(row, key, fields) ==
    IF fields = <<>> THEN Ok(row)
    ELSE IF Head(fields) \notin DOMAIN row THEN Raise("KeyError")
    ELSE IF Truthy(row[Head(fields)]) /\ Strip(row[Head(fields)]) # <<>>
    THEN Ok(Put(row, OaKey(key), row[Head(fields)]))
    ELSE FirstNonEmptyLoop(row, key, Tail(fields))

row_fxn_first_non_empty(sc, row, key, fxn) ==
    FirstNonEmptyLoop(row, key, IF "fields" \in DOMAIN fxn THEN fxn.fields ELSE <<>>)

\* format_var_pattern = re.compile('\$([0-9]+)')
Digit ==
    ("0" :> 0) @@ ("1" :> 1) @@ ("2" :> 2) @@ ("3" :> 3) @@ ("4" :> 4) @@
    ("5" :> 5) @@ ("6" :> 6) @@ ("7" :> 7) @@ ("8" :> 8) @@ ("9" :> 9)

\* the position after the digits that start at position p of s
RECURSIVE DigitsEnd(_, _)
DigitsEnd(s, p) == IF p <= Len(s) /\ s[p] \in DOMAIN Digit THEN DigitsEnd(s, p + 1) ELSE p

\* int(m.group(1))
RECURSIVE IntOf(_)
IntOf(digits) ==
    IF digits = <<>> THEN 0
    ELSE IntOf(SubSeq(digits, 1, Len(digits) - 1)) * 10 + Digit[digits[Len(digits)]]

\* format_var_pattern.finditer(format_str) from position p on: for each
\* match its span, as Python counts offsets, and its number
RECURSIVE FindVars(_, _)
FindVars(s, p) ==
    IF p > Len(s) THEN <<>>
    ELSE IF s[p] = "$" /\ DigitsEnd(s, p + 1) > p + 1
    THEN <<[start |-> p - 1, end |-> DigitsEnd(s, p + 1) - 1,
            field_idx |-> IntOf(SubSeq(s, p + 1, DigitsEnd(s, p + 1) - 1))]>>
         \o FindVars(s, DigitsEnd(s, p + 1))
    ELSE FindVars(s, p + 1)

\* a fault: the text before a placeholder is always emitted
EmitsTextAlways(idx, num_fields_added, field) == TRUE

\* if idx == 0 or (num_fields_added > 0 and field)
EmitsText(idx, num_fields_added, field) ==
    idx = 0 \/ (num_fields_added > 0 /\ field # <<>>)

\* field[:-2] if field.endswith(".0")
WithoutPointZero(field) ==
    IF EndsWith(field, <<".", "0">>) THEN SubSeq(field, 1, Len(field) - 2) ELSE field

\* the loop of row_fxn_format over the matches, and what is written after it
RECURSIVE FormatLoop(_, _, _, _, _, _)
FormatLoop(format_str, fields, matches, idx, num_fields_added, parts) ==
    IF matches = <<>>
    THEN IF num_fields_added > 0
         THEN parts \o SubSeq(format_str, idx + 1, Len(format_str))
         ELSE <<>>
    ELSE IF ~(Head(matches).field_idx > 0 /\ Head(matches).field_idx - 1 < Len(fields))
    THEN FormatLoop(format_str, fields, Tail(matches), Head(matches).end,
                    num_fields_added, parts)
    ELSE FormatLoop(format_str, fields, Tail(matches), Head(matches).end,
                    IF fields[Head(matches).field_idx] # <<>>
                    THEN num_fields_added + 1 ELSE num_fields_added,
                    parts
                    \o (IF EmitsText(idx, num_fields_added, fields[Head(matches).field_idx])
                        THEN SubSeq(format_str, idx + 1, Head(matches).start) ELSE <<>>)
                    \o WithoutPointZero(fields[Head(matches).field_idx]))

\* row_fxn_format: row[n] and fxn["format"] raise KeyError when absent
row_fxn_format(sc, row, key, fxn) ==
    IF "fields" \notin DOMAIN fxn \/ ~AllPresent(row, fxn.fields) THEN Raise("KeyError")
    ELSE IF "format" \notin DOMAIN fxn THEN Raise("KeyError")
    ELSE Ok(Put(row, OaKey(key),
                FormatLoop(fxn.format,
                           [n \in 1..Len(fxn.fields) |->
                               IF Truthy(row[fxn.fields[n]])
                               THEN Strip(row[fxn.fields[n]]) ELSE <<>>],
                           FindVars(fxn.format, 1), 0, 0, <<>>)))

\* the names row_function dispatches on
KnownFunctions ==
    {"join", "regexp", "format", "prefixed_number", "postfixed_street",
     "postfixed_unit", "remove_prefix", "remove_postfix", "chain", "first_non_empty"}

RECURSIVE row_function(_, _, _, _)
RECURSIVE ChainLoop(_, _, _, _)

\* a fault: the steps are evaluated from the last to the first
RECURSIVE ChainLoopBackwards(_, _, _, _)
ChainLoopBackwards(sc, row, key, functions) ==
    IF functions = <<>> THEN Ok(row)
    ELSE LET r == row_function(sc, row, key, functions[Len(functions)])
         IN  IF r.err # "" THEN r
             ELSE LET row1 == IF Truthy(Get(r.row, OaKey(key)))
                              THEN Put(r.row, key, r.row[OaKey(key)])
                              ELSE r.row
                  IN  ChainLoopBackwards(sc, row1, key,
                                         SubSeq(functions, 1, Len(functions) - 1))

\* the loop of row_fxn_chain: each step's truthy result is copied to row[key]
ChainLoop(sc, row, key, functions) ==
    IF functions = <<>> THEN Ok(row)
    ELSE LET r == row_function(sc, row, key, Head(functions))
         IN  IF r.err # "" THEN r
             ELSE LET row1 == IF Truthy(Get(r.row, OaKey(key)))
                              THEN Put(r.row, key, r.row[OaKey(key)])
                              ELSE r.row
                  IN  ChainLoop(sc, row1, key, Tail(functions))

\* row_fxn_chain
row_fxn_chain(sc, row, key, fxn) ==
    IF "functions" \notin DOMAIN fxn THEN Raise("KeyError")
    ELSE LET hasvar == "variable" \in DOMAIN fxn
             switch == hasvar /\ ~InSchema(sc.layer, Upper(fxn.variable))
                              /\ fxn.variable \notin DOMAIN row
             row0 == IF switch THEN Put(row, OaKey(fxn.variable), <<>>) ELSE row
             key1 == IF switch THEN fxn.variable ELSE key
             r == ChainLoop(sc, row0, key1, fxn.functions)
         IN  IF r.err # "" THEN r
             ELSE IF OaKey(key1) \notin DOMAIN r.row THEN Raise("KeyError")
             ELSE Ok(Put(r.row, OaKey(Lower(key)), r.row[OaKey(key1)]))

\* row_function: the dispatch on fxn["function"]; a name that matches no
\* branch falls through and the row is returned as it was
row_function(sc, row, key, fxn) ==
    IF "function" \notin DOMAIN fxn THEN Raise("KeyError")
    ELSE IF fxn.function = "join" THEN row_fxn_join(sc, row, key, fxn)
    ELSE IF fxn.function = "regexp" THEN row_fxn_regexp(sc, row, key, fxn)
    ELSE IF fxn.function = "format" THEN row_fxn_format(sc, row, key, fxn)
    ELSE IF fxn.function = "prefixed_number" THEN row_fxn_prefixed_number(sc, row, key, fxn)
    ELSE IF fxn.function = "postfixed_street" THEN row_fxn_postfixed_street(sc, row, key, fxn)
    ELSE IF fxn.function = "postfixed_unit" THEN row_fxn_postfixed_unit(sc, row, key, fxn)
    ELSE IF fxn.function = "remove_prefix" THEN row_fxn_remove_prefix(sc, row, key, fxn)
    ELSE IF fxn.function = "remove_postfix" THEN row_fxn_remove_postfix(sc, row, key, fxn)
    ELSE IF fxn.function = "chain" THEN row_fxn_chain(sc, row, key, fxn)
    ELSE IF fxn.function = "first_non_empty" THEN row_fxn_first_non_empty(sc, row, key, fxn)
    ELSE Ok(row)


(***************************************************************************)
(* Output assembly (conform.py)                                             *)
(***************************************************************************)
\* row_convert_to_out: GEOM, then every schema field: the derived oa: value
\* when there is one, else the source field the conform names, else ''.
\* cfield.lower() raises AttributeError when the conform value is a
\* non-empty list or dict (a function node that wrote no derived value).
ConvertField(sc, row, field) ==
    LET cfield == ConformGet(sc.data_source.conform, Lower(field))
    IN  IF Get(row, OaKey(Lower(field))) # None THEN Get(row, OaKey(Lower(field)))
        ELSE IF cfield.t = "str" /\ cfield.s # "" THEN Get(row, Lower(cfield.s))
        ELSE <<>>

ConvertRaises(sc, row, field) ==
    LET cfield == ConformGet(sc.data_source.conform, Lower(field))
    IN  /\ Get(row, OaKey(Lower(field))) = None
        /\ \/ cfield.t = "list" /\ cfield.l # <<>>
           \/ cfield.t = "dict"

row_convert_to_out(sc, row) ==
    LET schema == SeqSet(SCHEMA(sc.layer))
    IN  IF \E f \in schema : ConvertRaises(sc, row, f) THEN Raise("AttributeError")
        ELSE Ok([k \in schema \cup {"GEOM"} |->
                    IF k = "GEOM" THEN Get(row, Lower(GEOM_FIELDNAME))
                    ELSE ConvertField(sc, row, k)])

\* (v or '').strip()
OrEmptyStrip(v) == IF Truthy(v) THEN Strip(v) ELSE <<>>

\* row_canonicalize_unit_and_number
row_canonicalize_unit_and_number(row) ==
    LET number == OrEmptyStrip(row["NUMBER"])
    IN  [row EXCEPT !["UNIT"] = OrEmptyStrip(row["UNIT"]),
                    !["NUMBER"] = IF EndsWith(number, <<".", "0">>)
                                  THEN SubSeq(number, 1, Len(number) - 2)
                                  ELSE number,
                    !["STREET"] = OrEmptyStrip(row["STREET"])]

\* A geometry is None or a token sequence <<kind, x, y>>.  The coordinates
\* of the model, and "%.12g" % round(float(n), 7) of each.
RoundTable ==
    ("1.00000004" :> "1") @@ ("1" :> "1") @@ ("2.5" :> "2.5") @@ ("-119.2" :> "-119.2")

round_wgs84_to_7(n) == RoundTable[n]

\* row_round_lat_lon: a POINT that parses is rewritten with both coordinates
\* rounded; anything else is left as it is
row_round_lat_lon(row) ==
    LET g == row["GEOM"]
    IN  IF g # None /\ Len(g) = 3 /\ g[1] = "POINT"
           /\ g[2] \in DOMAIN RoundTable /\ g[3] \in DOMAIN RoundTable
        THEN [row EXCEPT !["GEOM"] = <<"POINT", round_wgs84_to_7(g[2]), round_wgs84_to_7(g[3])>>]
        ELSE row

(***************************************************************************)
(* The row hash.  sha1 is modelled by a 16-bit polynomial digest over the   *)
(* same byte stream the code feeds it: the fingerprint, then the JSON text  *)
(* of the row's items sorted by key; the digest is written as hex digits.   *)
(***************************************************************************)
\* every text atom of the model in code point order: sorted() on keys, and
\* the byte value an atom contributes to the digest
AtomOrder ==
    <<"\n", " ", "#", "-", "-119.2", ".", "/", "0", "1", "1.00000004", "2", "2.5", "3", "4", "5", "6",
      "BROKEN", "CITY", "DISTRICT", "GEOM", "HASH", "ID", "NUMBER", "None", "PID", "POINT",
      "POLYGON", "POSTCODE", "REGION", "RING", "STREET", "UNIT",
      "a", "abc", "b", "c", "geom", "n", "nan", "number", "oa:geom", "oa:n", "oa:number",
      "oa:pid", "oa:s", "oa:street", "oa:unit", "oa:v", "pid", "s", "s2", "street",
      "u", "unit", "v", "x", "z">>

Code(a) == CHOOSE i \in 1..Len(AtomOrder) : AtomOrder[i] = a

SortedKeys(row) == SelectSeq(AtomOrder, LAMBDA k : k \in DOMAIN row)

RECURSIVE Codes(_)
Codes(v) == IF v = <<>> THEN <<>> ELSE <<Code(Head(v))>> \o Codes(Tail(v))

\* json.dumps(sorted(row.items()), separators=(',', ':')) as byte values;
\* 0 closes each [key, value] pair
RECURSIVE DumpItems(_, _)
DumpItems(row, keys) ==
    IF keys = <<>> THEN <<>>
    ELSE <<Code(Head(keys))>> \o Codes(row[Head(keys)]) \o <<0>>
         \o DumpItems(row, Tail(keys))

RECURSIVE Update(_, _)
Update(h, bytes) ==
    IF bytes = <<>> THEN h
    ELSE Update((h * 31 + Head(bytes)) % 65536, Tail(bytes))

HexDigits == <<"0", "1", "2", "3", "4", "5", "6", "7", "8", "9", "a", "b", "c", "d", "e", "f">>

HexDigest(h) ==
    <<HexDigits[((h \div 4096) % 16) + 1], HexDigits[((h \div 256) % 16) + 1],
      HexDigits[((h \div 16) % 16) + 1], HexDigits[(h % 16) + 1]>>

\* row_calculate_hash
row_calculate_hash(cache_fingerprint, row) ==
    LET hash == Update(Update(0, Codes(cache_fingerprint)), DumpItems(row, SortedKeys(row)))
    IN  Put(row, "HASH", HexDigest(hash))

(***************************************************************************)
(* row_transform_and_convert                                                *)
(***************************************************************************)
\* the loop over c.items(): a list is merged, a dict is a function
RECURSIVE ConformLoop(_, _, _)
ConformLoop(sc, row, items) ==
    IF items = <<>> THEN Ok(row)
    ELSE LET k == Head(items)[1]
             v == Head(items)[2]
             r == IF InSchema(sc.layer, Upper(k)) /\ v.t = "list" THEN row_merge(sc, row, k)
                  ELSE IF InSchema(sc.layer, Upper(k)) /\ v.t = "dict"
                  THEN row_function(sc, row, k, v.d)
                  ELSE Ok(row)
         IN  IF r.err # "" THEN r ELSE ConformLoop(sc, r.row, Tail(items))

\* a fault: the stored fingerprint is ignored and every call seeds the hash
\* with a fresh uuid
CacheFingerprintAlwaysRandom(data_source, uuid) == uuid

\* data_source.get('fingerprint', str(uuid4())): uuid is the value uuid4 draws
CacheFingerprint(data_source, uuid) ==
    IF "fingerprint" \in DOMAIN data_source THEN data_source.fingerprint ELSE uuid

\* a fault: the hash is computed before the addresses canonicalization
row_transform_and_convert_hash_first(sc, input, uuid) ==
    LET r1 == ConformLoop(sc, row_smash_case(input), sc.data_source.conform)
        r2 == row_convert_to_out(sc, r1.row)
        h  == row_calculate_hash(CacheFingerprint(sc.data_source, uuid), r2.row)
        r3 == IF sc.layer = "addresses"
              THEN row_round_lat_lon(row_canonicalize_unit_and_number(h))
              ELSE h
    IN  IF r1.err # "" THEN r1
        ELSE IF r2.err # "" THEN r2
        ELSE Ok(r3)

row_transform_and_convert(sc, input, uuid) ==
    LET r1 == ConformLoop(sc, row_smash_case(input), sc.data_source.conform)
        r2 == row_convert_to_out(sc, r1.row)
        r3 == IF sc.layer = "addresses"
              THEN row_round_lat_lon(row_canonicalize_unit_and_number(r2.row))
              ELSE r2.row
    IN  IF r1.err # "" THEN r1
        ELSE IF r2.err # "" THEN r2
        ELSE Ok(row_calculate_hash(CacheFingerprint(sc.data_source, uuid), r3))

(***************************************************************************)
(* conform_smash_case (conform.py)                                          *)
(***************************************************************************)
RESERVED_SCHEMA ==
    SeqSet(ADDRESSES_SCHEMA) \cup {"PID", "OWNERS"} \cup {"LAT", "LON"}

\* [s.lower() for s in names]
LowerAll(names) == [i \in 1..Len(names) |-> Lower(names[i])]

\* a fault: only the field and fields of the node itself are lower-cased
fxn_smash_case_top(fxn) ==
    [k \in DOMAIN fxn |->
        IF k = "field" THEN Lower(fxn[k])
        ELSE IF k = "fields" THEN LowerAll(fxn[k])
        ELSE fxn[k]]

\* fxn_smash_case: the field names of a function node and of its steps
RECURSIVE fxn_smash_case(_)
fxn_smash_case(fxn) ==
    [k \in DOMAIN fxn |->
        IF k \in {"field", "field_to_remove"} THEN Lower(fxn[k])
        ELSE IF k = "fields" THEN LowerAll(fxn[k])
        ELSE IF k = "functions"
        THEN [i \in 1..Len(fxn[k]) |-> fxn_smash_case(fxn[k][i])]
        ELSE fxn[k]]

SmashEntry(e) ==
    IF e[2].t = "str" /\ Upper(e[1]) \in RESERVED_SCHEMA
    THEN <<e[1], [t |-> "str", s |-> Lower(e[2].s)]>>
    ELSE IF e[2].t = "list" THEN <<e[1], [t |-> "list", l |-> LowerAll(e[2].l)]>>
    ELSE IF e[2].t = "dict" THEN <<e[1], [t |-> "dict", d |-> fxn_smash_case(e[2].d)]>>
    ELSE e

\* conform_smash_case: a copy of the data source with the field names of
\* its conform object lower-cased; KeyError without a conform object
conform_smash_case(data_source) ==
    [data_source EXCEPT !.conform = [i \in 1..Len(@) |-> SmashEntry(@[i])]]

(***************************************************************************)
(* Inputs of the row interpreter                                            *)
(***************************************************************************)
Pt(x, y) == <<"POINT", x, y>>

Fn1(function, field) == [t |-> "dict", d |-> [function |-> function, field |-> field]]

StrV(name) == [t |-> "str", s |-> name]

\* source rows: upper- and lower-case keys, unmapped columns (x), blank and
\* absent values, a float-like house number
InputRows ==
    { ("N" :> <<"1", ".", "0">>) @@ ("s" :> <<"1", " ", "a">>) @@ ("x" :> <<"z">>)
          @@ ("OA:GEOM" :> Pt("1.00000004", "2.5")),
      ("n" :> <<"1", ".", "0">>) @@ ("s" :> <<"1", " ", "a">>)
          @@ ("oa:geom" :> Pt("1.00000004", "2.5")),
      ("n" :> <<" ", "1">>) @@ ("S" :> <<"1", " ", "a">>) @@ ("x" :> <<"a">>)
          @@ ("oa:geom" :> Pt("1", "2.5")),
      ("n" :> <<>>) @@ ("s" :> <<" ">>) @@ ("oa:geom" :> Pt("1", "1")),
      ("n" :> <<"2">>) @@ ("s" :> <<"2", " ", "b">>) @@ ("oa:geom" :> None),
      ("s" :> <<"a">>) @@ ("oa:geom" :> Pt("nan", "nan")) }

\* conform objects: direct names, a list, and function nodes, among them a
\* regexp without a pattern, a constant node, and function names
\* row_function does not know
Conforms ==
    { << <<"number", StrV("n")>>, <<"street", StrV("s")>> >>,
      << <<"number", Fn1("regexp", "s")>> >>,
      << <<"number", [t |-> "dict", d |-> [function |-> "regexp", field |-> "s",
                                         pattern |-> PatFirstWord]]>>,
         <<"street", [t |-> "dict", d |-> [function |-> "regexp", field |-> "s",
                                         pattern |-> PatAfterFirstWord]]>> >>,
      << <<"street", [t |-> "list", l |-> <<"n", "s">>]>> >>,
      << <<"number", [t |-> "dict", d |-> [function |-> "first_non_empty",
                                         fields |-> <<"n", "s">>]]>> >>,
      << <<"number", [t |-> "dict", d |-> [function |-> "join", fields |-> <<"n", "s">>,
                                         separator |-> <<"-">>]]>>,
         <<"unit", StrV("x")>> >>,
      << <<"street", [t |-> "dict", d |-> [function |-> "remove_prefix", field |-> "s",
                                         field_to_remove |-> "n"]]>>,
         <<"number", StrV("n")>> >>,
      << <<"number", Fn1("bogus", "n")>> >>,
      << <<"region", [t |-> "dict", d |-> [function |-> "constant",
                                         value |-> <<"P", "A">>]]>>,
         <<"number", StrV("n")>> >>,
      << <<"number", [t |-> "dict", d |->
            [function |-> "chain", variable |-> "v",
             functions |-> << [function |-> "regexp", field |-> "s", pattern |-> PatFirstWord],
                              [function |-> "bogus", field |-> "v"] >>]]>>,
         <<"street", StrV("s")>> >> }

\* conform objects that name the source fields n and s and refer to the
\* chain variable v, with each of the three names spelled as given
SpelledConforms(n, s, v) ==
    << << <<"number", StrV(n)>>, <<"street", StrV(s)>> >>,
       << <<"street", [t |-> "list", l |-> <<n, s>>]>> >>,
       << <<"number", [t |-> "dict", d |-> [function |-> "regexp", field |-> s,
                                          pattern |-> PatFirstWord]]>>,
          <<"street", [t |-> "dict", d |-> [function |-> "regexp", field |-> s,
                                          pattern |-> PatAfterFirstWord]]>> >>,
       << <<"street", [t |-> "dict", d |-> [function |-> "remove_prefix", field |-> s,
                                          field_to_remove |-> n]]>>,
          <<"number", StrV(n)>> >>,
       << <<"number", [t |-> "dict", d |->
             [function |-> "chain", variable |-> "v",
              functions |-> << [function |-> "regexp", field |-> s, pattern |-> PatFirstWord],
                               [function |-> "join", fields |-> <<v, n>>,
                                separator |-> <<"-">>] >>]]>>,
          <<"street", StrV(s)>> >>,
       << <<"number", [t |-> "dict", d |->
             [function |-> "chain", variable |-> "V",
              functions |-> << [function |-> "regexp", field |-> s, pattern |-> PatFirstWord],
                               [function |-> "regexp", field |-> v,
                                pattern |-> PatFirstWord] >>]]>> >> >>

\* the spellings of <<n, s, v>> other than all lower case
CaseSpellings == { <<"N", "S", "V">>, <<"N", "s", "v">>, <<"n", "S", "V">> }

CaseConforms ==
    { SpelledConforms(sp[1], sp[2], sp[3])[k] :
          sp \in CaseSpellings \cup {<<"n", "s", "v">>}, k \in 1..6 }

\* chains of two steps under the key number: without a variable, the second
\* step reading the first one's result as the field number; and with a
\* chain as the first or the second step, with and without variables
FirstWordOf(field) == [function |-> "regexp", field |-> field, pattern |-> PatFirstWord]

JoinOf(a, b) == [function |-> "join", fields |-> <<a, b>>, separator |-> <<"-">>]

ChainOf(f1, f2) == [function |-> "chain", functions |-> <<f1, f2>>]

ChainVar(variable, f1, f2) ==
    [function |-> "chain", variable |-> variable, functions |-> <<f1, f2>>]

Chains ==
    { ChainOf(FirstWordOf("s"), JoinOf("number", "n")),
      ChainVar("v", FirstWordOf("s"), JoinOf("v", "n")),
      ChainOf(ChainOf(FirstWordOf("s"), JoinOf("number", "n")), JoinOf("s", "number")),
      ChainVar("v", ChainVar("w", FirstWordOf("s"), JoinOf("w", "n")), JoinOf("s", "v")),
      ChainVar("v", JoinOf("n", "s"), ChainVar("w", FirstWordOf("v"), JoinOf("w", "n"))),
      ChainVar("v", JoinOf("n", "s"), ChainOf(FirstWordOf("v"), JoinOf("v", "n"))) }

ChainConforms == { << <<"number", [t |-> "dict", d |-> c]>>, <<"street", StrV("s")>> >> : c \in Chains }

\* a chain of three steps whose second step finds nothing after the one
\* word the first step left in the variable
AfterFirstWordOf(field) == [function |-> "regexp", field |-> field, pattern |-> PatAfterFirstWord]

WordChain ==
    [function |-> "chain", variable |-> "v",
     functions |-> <<FirstWordOf("s"), AfterFirstWordOf("v"), JoinOf("v", "n")>>]

WordChainConform == << <<"number", [t |-> "dict", d |-> WordChain]>>, <<"street", StrV("s")>> >>

\* templates of the format function, by their parts: the placeholders in
\* template order, each with the text before it, and the text after the last
FormatTemplates ==
    { [vars |-> << [text |-> <<>>, idx |-> 1], [text |-> <<"-">>, idx |-> 2],
                   [text |-> <<"-">>, idx |-> 3] >>,
       trail |-> <<>>],
      [vars |-> << [text |-> <<"#">>, idx |-> 1], [text |-> <<"-">>, idx |-> 2],
                   [text |-> <<" ">>, idx |-> 3] >>,
       trail |-> <<"/">>],
      [vars |-> << [text |-> <<>>, idx |-> 2], [text |-> <<" ">>, idx |-> 1] >>,
       trail |-> <<>>] }

\* the template as the conform object spells it, "$1-$2-$3" for the first
RECURSIVE TemplateText(_, _)
TemplateText(placeholders, trail) ==
    IF placeholders = <<>> THEN trail
    ELSE Head(placeholders).text \o <<"$", <<"1", "2", "3">>[Head(placeholders).idx]>>
         \o TemplateText(Tail(placeholders), trail)

FormatConform(t) ==
    << <<"street", [t |-> "dict",
                    d |-> [function |-> "format", fields |-> <<"a", "b", "c">>,
                           format |-> TemplateText(t.vars, t.trail)]]>>,
       <<"number", StrV("a")>> >>

FormatConforms == { FormatConform(t) : t \in FormatTemplates }

\* the rows of a source with the columns a, b and c, each filled or blank;
\* a holds 12.0, 12.0.0 or a blank
FormatRows ==
    { ("a" :> a) @@ ("b" :> b) @@ ("c" :> c) @@ ("oa:geom" :> Pt("1", "1")) :
          a \in { <<"1", "2", ".", "0">>, <<"1", "2", ".", "0", ".", "0">>, <<>>, <<" ">> },
          b \in { <<"3", "4">>, None },
          c \in { <<"5", "6">>, <<>> } }

\* streets with a prefix or a postfix to remove
RemoveOf(function) == [function |-> function, field |-> "s", field_to_remove |-> "n"]

RemoveConforms ==
    { << <<"street", [t |-> "dict", d |-> RemoveOf(function)]>>, <<"number", StrV("n")>> >> :
          function \in {"remove_prefix", "remove_postfix"} }

\* rows whose n holds nothing, the first word of s or its last word, and
\* whose s has spaces at its ends or none
RemoveRows ==
    { ("n" :> n) @@ ("s" :> st) @@ ("oa:geom" :> Pt("1", "1")) :
          n \in { <<>>, <<"1">>, <<"a">> },
          st \in { <<"1", " ", "a">>, <<" ", "1", " ", "a">>, <<"1", " ", "a", " ">> } }

\* an address in one column: the number, the street and the unit are cut
\* out of it, the city is the first of two columns that is not blank
SplitConform ==
    << <<"number", Fn1("prefixed_number", "s")>>,
       <<"street", Fn1("postfixed_street", "s")>>,
       <<"unit", Fn1("postfixed_unit", "s")>>,
       <<"city", [t |-> "dict", d |-> [function |-> "first_non_empty",
                                       fields |-> <<"n", "s">>]]>> >>

SplitRows ==
    { ("n" :> n) @@ ("s" :> st) @@ ("oa:geom" :> Pt("1", "1")) :
          n \in { <<>>, <<"b">> },
          st \in { <<"1", "2", " ", "a", " ", "#", "3">>, <<" ", "1", "a", " ", " ", "b">>,
                   <<"1", "-", "2", " ", "a">>, <<"a", "b">>, <<"1", " ">>,
                   <<"a", " ", "#", "b", " ", "#", "1">>, <<"1", "2", "a", "b", " ", "c">>,
                   <<" ">> } }

\* the rows a source with this conform object is explored with
RowsOf(conform) ==
    IF conform \in FormatConforms THEN FormatRows
    ELSE IF conform = SplitConform THEN SplitRows
    ELSE IF conform \in RemoveConforms THEN RemoveRows
    ELSE InputRows

Fingerprints == { <<"0", "0">>, <<"a", "b">> }

\* the values uuid4() may draw
Uuids == { <<"u", "1">>, <<"u", "2">> }

Layers == {"addresses", "parcels"}

WithFingerprint(ds, f) == [k \in (DOMAIN ds) \cup {"fingerprint"} |->
                              IF k = "fingerprint" THEN f ELSE ds[k]]

(***************************************************************************)
(* Specification SpecRow: calls of row_transform_and_convert on one source  *)
(* config, before and after the cache step has stored a fingerprint.        *)
(***************************************************************************)
InitRow ==
    /\ IdleJob
    /\ source_config \in [layer : Layers, data_source : [conform : Conforms]]
    /\ runs = <<>>
    /\ IdleFind
    /\ IdleTests
    /\ IdleEsri
    /\ IdleCli
    /\ IdleProc

\* cache() stores the fingerprint of the downloaded file in the data source
StoreFingerprint ==
    /\ \E f \in Fingerprints :
          /\ Get(source_config.data_source, "fingerprint") # f
          /\ source_config' = [source_config EXCEPT !.data_source = WithFingerprint(source_config.data_source, f)]
    /\ UNCHANGED <<jobVars, runs, findVars, esriVars, testVars, cliVars, procVars>>

\* transform_to_out_csv on one row of the extract: the data source is
\* replaced by its lower-cased copy and row_transform_and_convert is called;
\* authored is the conform object as it was before
RowTransform ==
    /\ Len(runs) < MaxRuns
    /\ source_config' = [source_config EXCEPT !.data_source = conform_smash_case(@)]
    /\ \E input \in RowsOf(source_config.data_source.conform), uuid \in Uuids :
          runs' = Append(runs,
                         [input |-> input,
                          authored |-> source_config.data_source.conform,
                          given |-> Get(source_config.data_source, "fingerprint"),
                          used |-> CacheFingerprint(source_config.data_source, uuid),
                          res |-> row_transform_and_convert(source_config', input, uuid)])
    /\ UNCHANGED <<jobVars, findVars, esriVars, testVars, cliVars, procVars>>

NextRow == StoreFingerprint \/ RowTransform

SpecRow == InitRow /\ [][NextRow]_vars

(***************************************************************************)
(* Specification SpecFxn: rows of sources whose conform objects spell       *)
(* their field names in mixed case, chain functions and format fields.      *)
(***************************************************************************)
InitFxn ==
    /\ IdleJob
    /\ source_config \in [layer : Layers,
                          data_source : [conform : CaseConforms \cup ChainConforms
                                                       \cup {WordChainConform}
                                                       \cup RemoveConforms
                                                       \cup {SplitConform}
                                                       \cup FormatConforms]]
    /\ runs = <<>>
    /\ IdleFind
    /\ IdleTests
    /\ IdleEsri
    /\ IdleCli
    /\ IdleProc

\* RowTransform on the first MaxRows rows of the extract
RowTransformFirst ==
    /\ Len(runs) < MaxRows
    /\ RowTransform

NextFxn == StoreFingerprint \/ RowTransformFirst

SpecFxn == InitFxn /\ [][NextFxn]_vars


(***************************************************************************)
(* C1, C2: the row hash                                                     *)
(***************************************************************************)
Run(i) == runs[i]

RunIds == 1..Len(runs)

\* C1: for a fixed conform spec, input row and stored fingerprint, every
\* call of row_transform_and_convert returns the identical output row,
\* HASH included (or raises the same exception).
C1_Deterministic ==
    \A i, j \in RunIds :
        (/\ Run(i).input = Run(j).input
         /\ Run(i).given # None
         /\ Run(i).given = Run(j).given)
        => Run(i).res = Run(j).res

\* a row was transformed twice under one stored fingerprint and got a hash
C1_Witness ==
    \E i, j \in RunIds :
        /\ i < j
        /\ Run(i).input = Run(j).input
        /\ Run(i).given # None
        /\ Run(i).given = Run(j).given
        /\ Run(i).res.err = ""
        /\ "HASH" \in DOMAIN Run(j).res.row

\* the output row without its HASH
Canonical(row) == [k \in (DOMAIN row) \ {"HASH"} |-> row[k]]

UnknownIn(fxn) ==
    \/ fxn.function \notin KnownFunctions
    \/ /\ fxn.function = "chain"
       /\ \E n \in 1..Len(fxn.functions) : fxn.functions[n].function \notin KnownFunctions

\* the conform object has such a node under an attribute of the layer's schema
HasUnknownFunction(sc) ==
    \E n \in 1..Len(sc.data_source.conform) :
        LET e == sc.data_source.conform[n]
        IN  /\ InSchema(sc.layer, Upper(e[1]))
            /\ e[2].t = "dict"
            /\ UnknownIn(e[2].d)

\* C9: a conform entry whose function name is not one of the defined
\* functions aborts the transformation: no row is ever produced from it.
C9_UnknownFunctionAborts ==
    \A i \in RunIds : HasUnknownFunction(source_config) => Run(i).res.err # ""

(***************************************************************************)
(* C12: the case of field references and of row keys                        *)
(***************************************************************************)
\* the row with every key spelled in lower case
LowerKeyed(row) ==
    [k \in {Lower(x) : x \in DOMAIN row} |-> row[CHOOSE x \in DOMAIN row : Lower(x) = k]]

\* what the call of run i returns for the all-lower-case spelling k of the
\* conform object and the lower-case spelling of the row's keys
LowerCaseResult(i, k) ==
    row_transform_and_convert(
        [layer |-> source_config.layer,
         data_source |-> [conform |-> SpelledConforms("n", "s", "v")[k],
                          fingerprint |-> Run(i).used]],
        LowerKeyed(Run(i).input), Run(i).used)

\* C12: a row transformed under a conform object that spells its field
\* references in upper or mixed case (direct names, list elements, the
\* field, fields and field_to_remove of function nodes and of chain steps,
\* a step's reference to the chain's variable), with row keys in either
\* case, gives the output the all-lower-case spelling of conform and row
\* gives.
C12_CaseInsensitive ==
    \A i \in RunIds : \A sp \in CaseSpellings : \A k \in 1..6 :
        Run(i).authored = SpelledConforms(sp[1], sp[2], sp[3])[k]
            => Run(i).res = LowerCaseResult(i, k)

\* a row with an upper-case key was transformed by a chain whose steps
\* spell a source field and the chain's variable in upper case, and a house
\* number came out
C12_Witness ==
    \E i \in RunIds :
        /\ Run(i).authored = SpelledConforms("N", "S", "V")[5]
        /\ "N" \in DOMAIN Run(i).input
        /\ Run(i).res.err = ""
        /\ Run(i).res.row["NUMBER"] = <<"1", "-", "1">>

(***************************************************************************)
(* C16: the steps of a chain                                                *)
(***************************************************************************)
\* the key a chain called for key works under: its variable when that is
\* no schema name and no key of the row, else key
WorkingKey(sc, row, key, fxn) ==
    IF /\ "variable" \in DOMAIN fxn
       /\ ~InSchema(sc.layer, Upper(fxn.variable))
       /\ fxn.variable \notin DOMAIN row
    THEN fxn.variable
    ELSE key

\* the row a step leaves, its result copied under the working key
AfterStep(r, key) ==
    IF Truthy(Get(r.row, OaKey(key))) THEN Put(r.row, key, r.row[OaKey(key)]) ELSE r.row

\* the first step of a two-step chain, run on the row the chain is given
FirstStep(sc, row, key, fxn) ==
    row_function(sc,
                 IF WorkingKey(sc, row, key, fxn) # key
                 THEN Put(row, OaKey(fxn.variable), <<>>) ELSE row,
                 WorkingKey(sc, row, key, fxn), fxn.functions[1])

\* the second step, run on the row the first one leaves
SecondStep(sc, row, key, fxn) ==
    row_function(sc, AfterStep(FirstStep(sc, row, key, fxn), WorkingKey(sc, row, key, fxn)),
                 WorkingKey(sc, row, key, fxn), fxn.functions[2])

\* a two-step chain called for key on row stores under oa:key what its
\* second step, run after the first, wrote under the working key
LastStepStored(sc, row, key, fxn) ==
    (/\ FirstStep(sc, row, key, fxn).err = ""
     /\ SecondStep(sc, row, key, fxn).err = ""
     /\ OaKey(WorkingKey(sc, row, key, fxn)) \in DOMAIN SecondStep(sc, row, key, fxn).row)
    => /\ row_fxn_chain(sc, row, key, fxn).err = ""
       /\ row_fxn_chain(sc, row, key, fxn).row[OaKey(key)]
              = SecondStep(sc, row, key, fxn).row[OaKey(WorkingKey(sc, row, key, fxn))]

\* C16: a chain evaluates its steps in listed order and stores under its
\* own target key the output of its last step, run on the row the earlier
\* steps left; so does a chain that is the first or the second step of
\* another chain, with or without variables.
C16_ChainInOrder ==
    \A i \in RunIds : \A c \in Chains :
        (/\ source_config.layer = "addresses"
         /\ ConformGet(Run(i).authored, "number") = [t |-> "dict", d |-> c])
        => LET row == row_smash_case(Run(i).input)
               key == WorkingKey(source_config, row, "number", c)
           IN  /\ LastStepStored(source_config, row, "number", c)
               /\ c.functions[1].function = "chain" =>
                      LastStepStored(source_config,
                                     IF key # "number" THEN Put(row, OaKey(key), <<>>) ELSE row,
                                     key, c.functions[1])
               /\ (c.functions[2].function = "chain"
                      /\ FirstStep(source_config, row, "number", c).err = "") =>
                      LastStepStored(source_config,
                                     AfterStep(FirstStep(source_config, row, "number", c), key),
                                     key, c.functions[2])
               /\ (Run(i).res.err = "" /\ SecondStep(source_config, row, "number", c).err = "")
                      => Run(i).res.row["NUMBER"] =
                             row_canonicalize_unit_and_number(
                                 [NUMBER |-> SecondStep(source_config, row, "number", c).row[OaKey(key)],
                                  STREET |-> <<>>, UNIT |-> <<>>])["NUMBER"]

\* a chain whose second step is a chain was run on a row: the inner chain
\* took the first word of the outer chain's variable, and the house number
\* is that word joined to the source's number
C16_Witness ==
    \E i \in RunIds :
        /\ ConformGet(Run(i).authored, "number") =
              [t |-> "dict",
               d |-> ChainVar("v", JoinOf("n", "s"),
                              ChainVar("w", FirstWordOf("v"), JoinOf("w", "n")))]
        /\ source_config.layer = "addresses"
        /\ Run(i).res.err = ""
        /\ Run(i).res.row["NUMBER"] = <<"2", "-", "2", "-", "2">>

(***************************************************************************)
(* C17: the format function                                                 *)
(***************************************************************************)
\* the value of the field a placeholder names: stripped, and without a
\* trailing ".0"
PlaceholderValue(row, idx) ==
    LET v == OrEmptyStrip(row[<<"a", "b", "c">>[idx]])
    IN  IF EndsWith(v, <<".", "0">>) THEN SubSeq(v, 1, Len(v) - 2) ELSE v

\* the non-blank values in placeholder order, each but the first one
\* emitted after the text that precedes its placeholder
RECURSIVE Emitted(_, _, _)
Emitted(placeholders, row, any) ==
    IF placeholders = <<>> THEN <<>>
    ELSE IF PlaceholderValue(row, Head(placeholders).idx) = <<>>
    THEN Emitted(Tail(placeholders), row, any)
    ELSE (IF any THEN Head(placeholders).text ELSE <<>>)
         \o PlaceholderValue(row, Head(placeholders).idx)
         \o Emitted(Tail(placeholders), row, TRUE)

\* what the claim has the format function write for template t
Formatted(t, row) ==
    IF \A n \in 1..Len(t.vars) : PlaceholderValue(row, t.vars[n].idx) = <<>>
    THEN <<>>
    ELSE t.vars[1].text \o Emitted(t.vars, row, FALSE) \o t.trail

\* C17: format writes the empty string when every field its template
\* refers to is blank; otherwise the template's leading text, then the
\* non-blank values in placeholder order, each without a trailing ".0" and,
\* when a value was emitted before it, after the text that precedes its
\* placeholder, then the text after the last placeholder.
C17_FormatSkipsBlanks ==
    \A i \in RunIds : \A t \in FormatTemplates :
        (source_config.layer = "addresses" /\ Run(i).authored = FormatConform(t))
        => /\ Run(i).res.err = ""
           /\ Run(i).res.row["STREET"] = Formatted(t, Run(i).input)

\* "$1-$2-$3" gave 12-56 over 12.0, a blank and 56
C17_Witness ==
    \E i \in RunIds :
        /\ source_config.layer = "addresses"
        /\ Run(i).authored \in FormatConforms
        /\ ConformGet(Run(i).authored, "street").d.format
              = <<"$", "1", "-", "$", "2", "-", "$", "3">>
        /\ Run(i).input["a"] = <<"1", "2", ".", "0">>
        /\ Run(i).input["b"] = None
        /\ Run(i).input["c"] = <<"5", "6">>
        /\ Run(i).res.err = ""
        /\ Run(i).res.row["STREET"] = <<"1", "2", "-", "5", "6">>


(***************************************************************************)
(* C18, C19: function nodes that write no derived value                     *)
(***************************************************************************)
\* the entries of a conform object that hold a node of the given function
\* under an attribute of the layer's schema
NodesOf(conform, layer, function) ==
    {n \in 1..Len(conform) :
        /\ InSchema(layer, Upper(conform[n][1]))
        /\ conform[n][2].t = "dict"
        /\ conform[n][2].d.function = function}

\* the row has every one of the fields and each is None, empty or spaces
AllBlank(row, fields) ==
    \A n \in 1..Len(fields) :
        /\ Lower(fields[n]) \in DOMAIN LowerKeyed(row)
        /\ \/ ~Truthy(LowerKeyed(row)[Lower(fields[n])])
           \/ Strip(LowerKeyed(row)[Lower(fields[n])]) = <<>>

\* C18: when every field listed in a first_non_empty function is blank, no
\* derived value is written for the target key, and the full row transform
\* still completes, producing the empty string for that canonical field.
C18_AllBlankCompletes ==
    \A i \in RunIds :
        \A n \in NodesOf(Run(i).authored, source_config.layer, "first_non_empty") :
            AllBlank(Run(i).input, Run(i).authored[n][2].d.fields)
            => /\ Run(i).res.err = ""
               /\ Run(i).res.row[Upper(Run(i).authored[n][1])] = <<>>

\* C19: a canonical field mapped to constant{value} has output equal to
\* value verbatim for every input row, independent of the row's contents.
C19_ConstantVerbatim ==
    \A i \in RunIds :
        \A n \in NodesOf(Run(i).authored, source_config.layer, "constant") :
            /\ Run(i).res.err = ""
            /\ Run(i).res.row[Upper(Run(i).authored[n][1])] = Run(i).authored[n][2].d.value

(***************************************************************************)
(* C20: row_canonicalize_unit_and_number applied again                      *)
(***************************************************************************)
\* C20: applying row_canonicalize_unit_and_number twice to any row gives the
\* same NUMBER, STREET and UNIT values as applying it once: the row a call
\* on the addresses layer returns, which went through it once, is left as
\* it is by a second application.
C20_CanonicalizeIdempotent ==
    \A i \in RunIds :
        (source_config.layer = "addresses" /\ Run(i).res.err = "")
        => \A k \in {"NUMBER", "STREET", "UNIT"} :
              row_canonicalize_unit_and_number(Run(i).res.row)[k] = Run(i).res.row[k]


(***************************************************************************)
(* find_source_path and ConvertToCsvTask.convert (conform.py).  A path is   *)
(* a string; PathTable holds, for each path of the model, what              *)
(* os.path.basename, os.path.splitext and re.sub('\.gdb.*', '.gdb', fn)     *)
(* return for it.                                                           *)
(***************************************************************************)
NoPath == "None"

PathTable ==
    ("d/a.shp" :> [base |-> "a.shp", stem |-> "a", ext |-> ".shp", gdb |-> "d/a.shp"]) @@
    ("d/b.SHP" :> [base |-> "b.SHP", stem |-> "b", ext |-> ".SHP", gdb |-> "d/b.SHP"]) @@
    ("d/a.csv" :> [base |-> "a.csv", stem |-> "a", ext |-> ".csv", gdb |-> "d/a.csv"]) @@
    ("d/b.CSV" :> [base |-> "b.CSV", stem |-> "b", ext |-> ".CSV", gdb |-> "d/b.CSV"]) @@
    ("d/a.json" :> [base |-> "a.json", stem |-> "a", ext |-> ".json", gdb |-> "d/a.json"]) @@
    ("d/b.geojson" :> [base |-> "b.geojson", stem |-> "b", ext |-> ".geojson",
                       gdb |-> "d/b.geojson"]) @@
    ("d/a.gml" :> [base |-> "a.gml", stem |-> "a", ext |-> ".gml", gdb |-> "d/a.gml"]) @@
    ("d/b.gml" :> [base |-> "b.gml", stem |-> "b", ext |-> ".gml", gdb |-> "d/b.gml"]) @@
    ("d/a.gdb/t1" :> [base |-> "t1", stem |-> "t1", ext |-> "", gdb |-> "d/a.gdb"]) @@
    ("d/a.gdb/t2" :> [base |-> "t2", stem |-> "t2", ext |-> "", gdb |-> "d/a.gdb"]) @@
    ("d/a.gdb" :> [base |-> "a.gdb", stem |-> "a", ext |-> ".gdb", gdb |-> "d/a.gdb"]) @@
    ("d/b.gdb" :> [base |-> "b.gdb", stem |-> "b", ext |-> ".gdb", gdb |-> "d/b.gdb"]) @@
    ("b.SHP" :> [base |-> "b.SHP", stem |-> "b", ext |-> ".SHP", gdb |-> "b.SHP"]) @@
    ("x/b.SHP" :> [base |-> "b.SHP", stem |-> "b", ext |-> ".SHP", gdb |-> "x/b.SHP"]) @@
    ("x/b.CSV" :> [base |-> "b.CSV", stem |-> "b", ext |-> ".CSV", gdb |-> "x/b.CSV"]) @@
    ("b.gdb" :> [base |-> "b.gdb", stem |-> "b", ext |-> ".gdb", gdb |-> "b.gdb"]) @@
    ("x/b.gml" :> [base |-> "b.gml", stem |-> "b", ext |-> ".gml", gdb |-> "x/b.gml"])

basename(fn) == PathTable[fn].base

\* os.path.splitext(fn)[1]
splitext(fn) == PathTable[fn].ext

\* re.sub('\.gdb.*', '.gdb', fn)
GdbSub(fn) == PathTable[fn].gdb

\* what find_source_path returns or raises, with the message it logs
Found(path, log) == [err |-> "", path |-> path, log |-> log]

FindRaise(e, log) == [err |-> e, path |-> NoPath, log |-> log]

\* the format names s of the model for which  s in ("shapefile")  holds:
\* ("shapefile") is a string, so the test is a substring test
ShapefileSubstrings == {"shapefile", "shape"}

\* a fault: the extension is compared as it is spelled
CandidatesAsSpelled(paths, exts) == SelectSeq(paths, LAMBDA fn : splitext(fn) \in exts)

\* for fn in source_paths: if ext.lower() in exts: candidates.append(fn)
Candidates(paths, exts) == SelectSeq(paths, LAMBDA fn : Lower(splitext(fn)) \in exts)

\* the gdb loop: paths inside a .gdb directory count once, as the directory
RECURSIVE GdbCandidates(_, _)
GdbCandidates(paths, candidates) ==
    IF paths = <<>> THEN candidates
    ELSE LET fn == GdbSub(Head(paths))
         IN  GdbCandidates(Tail(paths),
                           IF Lower(splitext(fn)) = ".gdb" /\ fn \notin SeqSet(candidates)
                           THEN Append(candidates, fn)
                           ELSE candidates)

\* for c in candidates: if source_file_name == os.path.basename(c): return c
NamedCandidate(candidates, source_file_name) ==
    LET hits == SelectSeq(candidates, LAMBDA c : source_file_name = basename(c))
    IN  IF hits # <<>> THEN Found(hits[1], "")
        ELSE Found(NoPath, "Source names file but could not find it")

\* for fn in source_paths: if basename(conform["file"]) == basename(fn): return fn
NamedPath(paths, file) ==
    LET hits == SelectSeq(paths, LAMBDA fn : basename(file) = basename(fn))
    IN  IF hits # <<>> THEN Found(hits[1], "")
        ELSE Found(NoPath, "Conform named file but we could not find it.")

\* a fault: several candidates and no file attribute select the first one
PickCandidateFirst(conform, candidates, what) ==
    IF candidates = <<>> THEN Found(NoPath, "No " \o what \o " found")
    ELSE IF Len(candidates) = 1 THEN Found(candidates[1], "Selected for source")
    ELSE IF ConformGet(conform, "file") = NoEntry THEN Found(candidates[1], "Selected for source")
    ELSE NamedCandidate(candidates, ConformGet(conform, "file").s)

\* the shapefile and gdb branches once the candidates are collected
PickCandidate(conform, candidates, what) ==
    IF candidates = <<>> THEN Found(NoPath, "No " \o what \o " found")
    ELSE IF Len(candidates) = 1 THEN Found(candidates[1], "Selected for source")
    ELSE IF ConformGet(conform, "file") = NoEntry
    THEN Found(NoPath, "Multiple " \o what \o " found, but source has no file attribute.")
    ELSE NamedCandidate(candidates, ConformGet(conform, "file").s)

\* the geojson branch for a source that is not ESRI
PickJson(candidates) ==
    IF candidates = <<>> THEN Found(NoPath, "No JSON found")
    ELSE IF Len(candidates) = 1 THEN Found(candidates[1], "Selected for source")
    ELSE Found(NoPath, "Found more than one JSON file in source, can't pick one")

\* source_paths[0]
FirstPath(paths) == IF paths = <<>> THEN FindRaise("IndexError", "") ELSE Found(paths[1], "")

\* the csv branch
PickCsv(conform, paths) ==
    IF ConformGet(conform, "file") # NoEntry THEN NamedPath(paths, ConformGet(conform, "file").s)
    ELSE IF Candidates(paths, {".csv"}) # <<>> THEN Found(Candidates(paths, {".csv"})[1], "")
    ELSE FirstPath(paths)

\* the xml branch: the extension is compared as it is spelled
PickXml(conform, paths) ==
    LET gml == SelectSeq(paths, LAMBDA fn : splitext(fn) = ".gml")
    IN  IF ConformGet(conform, "file") # NoEntry
        THEN NamedPath(paths, ConformGet(conform, "file").s)
        ELSE IF gml # <<>> THEN Found(gml[1], "")
        ELSE Found(NoPath, "Could not find a .gml file")

find_source_path(data_source, paths) ==
    IF "conform" \notin DOMAIN data_source
    THEN FindRaise("KeyError", "Source is missing a conform object")
    ELSE LET conform == data_source.conform
             format == ConformGet(conform, "format")
             protocol_string == IF "protocol" \in DOMAIN data_source
                                THEN data_source.protocol ELSE "None"
         IN  IF format = NoEntry THEN FindRaise("TypeError", "")
             ELSE IF format.s \in ShapefileSubstrings
             THEN PickCandidate(conform, Candidates(paths, {".shp"}), "shapefiles")
             ELSE IF format.s = "geojson" /\ protocol_string # "ESRI"
             THEN PickJson(Candidates(paths, {".json", ".geojson"}))
             ELSE IF format.s = "geojson" /\ protocol_string = "ESRI" THEN FirstPath(paths)
             ELSE IF format.s = "csv" THEN PickCsv(conform, paths)
             ELSE IF format.s = "gdb"
             THEN PickCandidate(conform, GdbCandidates(paths, <<>>), "GDBs")
             ELSE IF format.s = "xml" THEN PickXml(conform, paths)
             ELSE Found(NoPath, "Unknown source conform format")

\* the formats conform_cli accepts
CliFormats == {"shapefile", "geojson", "csv", "xml", "gdb"}

\* conform_cli up to its return code: 1 without a conform object or with a
\* format it does not know; otherwise the extraction and the transformation
\* run, fault being the exception they raise on the file's content ("" for
\* none), which conform_cli lets through
conform_cli_rc(data_source, fault) ==
    IF "conform" \notin DOMAIN data_source THEN [err |-> "", rc |-> 1]
    ELSE IF ConformGet(data_source.conform, "format") = NoEntry THEN [err |-> "", rc |-> 1]
    ELSE IF ConformGet(data_source.conform, "format").s \notin CliFormats
    THEN [err |-> "", rc |-> 1]
    ELSE IF fault # "" THEN [err |-> fault, rc |-> 1]
    ELSE [err |-> "", rc |-> 0]

\* ConvertToCsvTask.convert: lines is the number of lines of the CSV that
\* conform_cli wrote
convert(data_source, paths, fault, lines) ==
    LET source_path == find_source_path(data_source, paths)
        called == conform_cli_rc(data_source, fault)
    IN  IF source_path.err # "" THEN [err |-> source_path.err, path |-> NoPath, count |-> 0]
        ELSE IF source_path.path = NoPath THEN [err |-> "", path |-> NoPath, count |-> 0]
        ELSE IF called.err # "" THEN [err |-> called.err, path |-> NoPath, count |-> 0]
        ELSE IF called.rc = 0
        THEN [err |-> "", path |-> "converted/" \o PathTable[source_path.path].stem \o ".csv",
              count |-> lines - 1]
        ELSE [err |-> "", path |-> NoPath, count |-> 0]

\* the decompressed files of the model
SourcePathNames ==
    {"d/a.shp", "d/b.SHP", "d/a.csv", "d/b.CSV", "d/a.json", "d/b.geojson",
     "d/a.gml", "d/b.gml", "d/a.gdb/t1", "d/a.gdb/t2", "d/b.gdb"}

Conf(format) == << <<"format", StrV(format)>> >>

ConfFile(format, file) == << <<"format", StrV(format)>>, <<"file", StrV(file)>> >>

\* data sources: every format with no file attribute, and the formats that
\* read the attribute with one
FindDataSources ==
    { [conform |-> Conf(f), protocol |-> "http"] :
          f \in {"shapefile", "shape", "geojson", "csv", "gdb", "xml", "kml"} }
    \cup { [conform |-> Conf(f), protocol |-> "ESRI"] : f \in {"geojson", "csv"} }
    \cup { [conform |-> << <<"number", StrV("n")>> >>, protocol |-> "http"],
           [conform |-> ConfFile("shapefile", "b.SHP"), protocol |-> "http"],
           [conform |-> ConfFile("shapefile", "x/b.SHP"), protocol |-> "http"],
           [conform |-> ConfFile("csv", "x/b.CSV"), protocol |-> "http"],
           [conform |-> ConfFile("gdb", "b.gdb"), protocol |-> "http"],
           [conform |-> ConfFile("xml", "x/b.gml"), protocol |-> "http"],
           [conform |-> ConfFile("geojson", "x/b.gml")],
           [conform |-> ConfFile("shapefile", "c.shp"), protocol |-> "http"],
           [conform |-> ConfFile("gdb", "c.gdb"), protocol |-> "http"] }

(***************************************************************************)
(* Specification SpecFind: a data source, its decompressed files as the     *)
(* zip listing yields them, and the conversion of the file selected.        *)
(***************************************************************************)
InitFind ==
    /\ IdleJob
    /\ find_ds \in FindDataSources
    /\ source_paths = <<>>
    /\ found = [called |-> FALSE]
    /\ IdleRow
    /\ IdleTests
    /\ IdleEsri
    /\ IdleCli
    /\ IdleProc

\* ZipDecompressTask.decompress appends each expanded file to its output
Decompress ==
    /\ ~found.called
    /\ Len(source_paths) < MaxPaths
    /\ \E fn \in SourcePathNames \ SeqSet(source_paths) :
          source_paths' = Append(source_paths, fn)
    /\ UNCHANGED <<jobVars, find_ds, found, rowVars, esriVars, testVars, cliVars, procVars>>

\* task4.convert(source_config, decompressed_paths, workdir)
Convert ==
    /\ ~found.called
    /\ \E fault \in {"", "RuntimeError"}, lines \in 1..2 :
          found' = [called |-> TRUE,
                    source_path |-> find_source_path(find_ds, source_paths),
                    result |-> convert(find_ds, source_paths, fault, lines)]
    /\ UNCHANGED <<jobVars, find_ds, source_paths, rowVars, esriVars, testVars, cliVars, procVars>>

NextFind == Decompress \/ Convert

SpecFind == InitFind /\ [][NextFind]_vars


(***************************************************************************)
(* C10: several candidate files and no file attribute                       *)
(***************************************************************************)
\* the files that match the declared format, in listing order
DeclaredCandidates(ds, paths) ==
    LET format == ConformGet(ds.conform, "format")
    IN  IF format = NoEntry THEN <<>>
        ELSE IF format.s = "shapefile" THEN Candidates(paths, {".shp"})
        ELSE IF format.s = "geojson" THEN Candidates(paths, {".json", ".geojson"})
        ELSE IF format.s = "csv" THEN Candidates(paths, {".csv"})
        ELSE IF format.s = "gdb" THEN GdbCandidates(paths, <<>>)
        ELSE IF format.s = "xml" THEN Candidates(paths, {".gml"})
        ELSE <<>>

\* convert ran on more than one candidate with no file attribute to tell
\* them apart
Ambiguous ==
    /\ found.called
    /\ ConformGet(find_ds.conform, "file") = NoEntry
    /\ Len(DeclaredCandidates(find_ds, source_paths)) > 1

\* C10 as stated: for every declared format, more than one candidate and no
\* file attribute make the extraction fail; no candidate is selected.
C10_AmbiguousFails ==
    Ambiguous => /\ found.source_path.path = NoPath
                 /\ found.result.path = NoPath

\* C10 as the code has it: with more than one candidate and no file
\* attribute, shapefile, gdb and non-ESRI geojson sources select nothing and
\* convert returns (None, 0); csv and xml sources select the first candidate
\* in listing order and ESRI geojson sources the first listed path.
C10_AmbiguityByFormat ==
    Ambiguous =>
        LET format == ConformGet(find_ds.conform, "format").s
            esri == "protocol" \in DOMAIN find_ds /\ find_ds.protocol = "ESRI"
        IN  IF format \in {"shapefile", "gdb"} \/ (format = "geojson" /\ ~esri)
            THEN /\ found.source_path.err = ""
                 /\ found.source_path.path = NoPath
                 /\ found.result = [err |-> "", path |-> NoPath, count |-> 0]
            ELSE IF format = "geojson"
            THEN found.source_path.path = source_paths[1]
            ELSE found.source_path.path = DeclaredCandidates(find_ds, source_paths)[1]

\* a csv source with two .csv files and no file attribute was converted
\* from the first of them
C10_Witness ==
    /\ Ambiguous
    /\ ConformGet(find_ds.conform, "format").s = "csv"
    /\ found.source_path.path = DeclaredCandidates(find_ds, source_paths)[1]
    /\ found.result.path # NoPath

(***************************************************************************)
(* C11: the shapefile and geodatabase branches of find_source_path          *)
(***************************************************************************)
\* convert ran on a source whose declared format is shapefile or gdb
ShapefileOrGdb ==
    /\ found.called
    /\ ConformGet(find_ds.conform, "format") # NoEntry
    /\ ConformGet(find_ds.conform, "format").s \in {"shapefile", "gdb"}

\* the listed paths with the extension .shp in any case; for gdb the .gdb
\* directories the listed paths are, or lie in
ExtensionCandidates ==
    IF ConformGet(find_ds.conform, "format").s = "shapefile"
    THEN {fn \in SeqSet(source_paths) : Lower(splitext(fn)) = ".shp"}
    ELSE {GdbSub(fn) : fn \in {p \in SeqSet(source_paths) : Lower(splitext(GdbSub(p))) = ".gdb"}}

\* the candidates whose basename is the conform's file attribute
NamedByFile ==
    {c \in ExtensionCandidates :
        /\ ConformGet(find_ds.conform, "file") # NoEntry
        /\ basename(c) = ConformGet(find_ds.conform, "file").s}

\* C11: for shapefile and gdb sources find_source_path returns the single
\* candidate when exactly one path has the format's extension in any case,
\* the candidate whose basename equals conform.file when there are several,
\* and None when there is no candidate, when there are several and no file
\* is named, or when the named file is not among them; it never raises.
C11_ShapefileAndGdbPath ==
    ShapefileOrGdb =>
        /\ found.source_path.err = ""
        /\ IF Cardinality(ExtensionCandidates) = 1
           THEN found.source_path.path \in ExtensionCandidates
           ELSE IF Cardinality(ExtensionCandidates) > 1 /\ NamedByFile # {}
           THEN found.source_path.path \in NamedByFile
           ELSE found.source_path.path = NoPath

\* two shapefiles were listed and the one the file attribute names, with
\* its extension in upper case, was selected
C11_Witness ==
    /\ ShapefileOrGdb
    /\ Cardinality(ExtensionCandidates) = 2
    /\ ConformGet(find_ds.conform, "file") # NoEntry
    /\ found.source_path.path = "d/b.SHP"


(***************************************************************************)
(* check_source_tests (conform.py).  The test block of a data source and    *)
(* each fixture are dicts: functions whose DOMAIN is the set of keys        *)
(* present.                                                                 *)
(***************************************************************************)
\* the try/except around conform_smash_case: on any exception the data
\* source stays as it was
Smashed(data_source) ==
    IF "conform" \in DOMAIN data_source THEN conform_smash_case(data_source) ELSE data_source

\* {k: v for (k, v) in output.items() if k in test['expected']}
Restrict(output, keys) == [k \in (DOMAIN output) \cap keys |-> output[k]]

\* 'test {}'.format(index)
TestIndexName == [i \in 0..3 |-> <<"test 0", "test 1", "test 2", "test 3">>[i + 1]]

\* the end of the loop body: actual and expected are compared
CompareOutcome(test, index, actual, expected) ==
    [err |-> "", differ |-> actual # expected,
     message |-> [description |-> IF "description" \in DOMAIN test
                                  THEN test["description"]
                                  ELSE TestIndexName[index],
                  expected |-> expected,
                  actual |-> actual]]

\* the loop body once row_transform_and_convert returned or raised r
OutcomeOf(test, index, r) ==
    IF r.err # "" THEN [err |-> r.err]
    ELSE IF "expected" \notin DOMAIN test THEN [err |-> "KeyError"]
    ELSE CompareOutcome(test, index,
                        Restrict(row_smash_case(r.row), DOMAIN test["expected"]),
                        row_smash_case(test["expected"]))

\* one pass of the loop body for fixture test at position index:
\* the exception it raises, or whether actual and expected differ
TestOutcome(sc, test, index, uuid) ==
    IF "inputs" \notin DOMAIN test THEN [err |-> "KeyError"]
    ELSE IF "conform" \notin DOMAIN sc.data_source THEN [err |-> "KeyError"]
    ELSE OutcomeOf(test, index,
                   row_transform_and_convert(sc, row_smash_case(test["inputs"]), uuid))

NoMessage == [description |-> "None"]

\* what check_source_tests returns, or the exception it lets through
TestReturn(passed, message) == [err |-> "", passed |-> passed, message |-> message]

TestRaise(e) == [err |-> e, passed |-> "None", message |-> NoMessage]

\* source_config.data_source.get('test', {})
SourceTest(data_source) ==
    IF "test" \in DOMAIN data_source THEN data_source.test ELSE [k \in {} |-> <<>>]

\* source_test.get('enabled', True)
TestsEnabled(source_test) ==
    IF "enabled" \in DOMAIN source_test THEN source_test["enabled"] ELSE TRUE

\* source_test.get('acceptance-tests'), None read as no fixtures
AcceptanceTests(source_test) ==
    IF "acceptance-tests" \in DOMAIN source_test THEN source_test["acceptance-tests"] ELSE <<>>

\* check_source_tests up to its loop: nothing to be done without enabled
\* tests, else the loop starts at index 0
TestsStart(data_source) ==
    IF ~TestsEnabled(SourceTest(data_source)) \/ AcceptanceTests(SourceTest(data_source)) = <<>>
    THEN [called |-> TRUE, done |-> TRUE, index |-> 0, evaluated |-> <<>>, uuids |-> <<>>,
          verdict |-> TestReturn("None", NoMessage)]
    ELSE [called |-> TRUE, done |-> FALSE, index |-> 0, evaluated |-> <<>>, uuids |-> <<>>,
          verdict |-> TestRaise("")]

\* a fault: a fixture whose actual differs from expected does not end the loop
AfterFixtureGoesOn(res, o, uuid) ==
    LET ev == [res EXCEPT !.evaluated = Append(@, res.index), !.uuids = Append(@, uuid)]
    IN  IF o.err # "" THEN [ev EXCEPT !.done = TRUE, !.verdict = TestRaise(o.err)]
        ELSE [ev EXCEPT !.index = @ + 1]

\* the loop of check_source_tests after the body ran for fixture res.index
\* with outcome o: an exception leaves the function, a difference returns
\* False with the message, otherwise the loop goes to the next fixture
AfterFixture(res, o, uuid) ==
    LET ev == [res EXCEPT !.evaluated = Append(@, res.index), !.uuids = Append(@, uuid)]
    IN  IF o.err # "" THEN [ev EXCEPT !.done = TRUE, !.verdict = TestRaise(o.err)]
        ELSE IF o.differ THEN [ev EXCEPT !.done = TRUE, !.verdict = TestReturn("False", o.message)]
        ELSE [ev EXCEPT !.index = @ + 1]

\* conform objects whose field names are spelled in upper case, one of them
\* with a schema key that is not in lower case
TestConforms ==
    { << <<"number", [t |-> "dict", d |-> [function |-> "regexp", field |-> "S",
                                         pattern |-> PatFirstWord]]>>,
         <<"street", [t |-> "dict", d |-> [function |-> "regexp", field |-> "S",
                                         pattern |-> PatAfterFirstWord]]>> >>,
      << <<"number", StrV("N")>>, <<"street", [t |-> "list", l |-> <<"S", "S2">>]>> >>,
      << <<"Number", StrV("N")>>, <<"street", StrV("S")>> >> }

FixtureInputs ==
    ("N" :> <<"1">>) @@ ("S" :> <<"1", " ", "a">>) @@ ("S2" :> <<"b">>)

\* fixtures: expectations that hold under every conform, under one of them,
\* under none (one without a description, one with an upper-case key), and a
\* fixture without inputs
Fixtures ==
    { ("inputs" :> FixtureInputs) @@ ("expected" :> ("number" :> <<"1">>))
          @@ ("description" :> "number"),
      ("inputs" :> FixtureInputs)
          @@ ("expected" :> (("number" :> <<"1">>) @@ ("street" :> <<"a">>)))
          @@ ("description" :> "street"),
      ("inputs" :> FixtureInputs) @@ ("expected" :> ("number" :> <<"2">>)),
      ("inputs" :> FixtureInputs) @@ ("expected" :> ("NUMBER" :> <<"1">>))
          @@ ("description" :> "upper"),
      ("expected" :> ("number" :> <<"1">>)) @@ ("description" :> "no inputs") }

FixtureLists == UNION { [1..n -> Fixtures] : n \in 0..MaxTests }

TestBlocks ==
    { ("acceptance-tests" :> l) : l \in FixtureLists }
    \cup { ("acceptance-tests" :> l) @@ ("enabled" :> FALSE) : l \in FixtureLists }
    \cup { ("enabled" :> TRUE) }

TestDataSources ==
    { ("conform" :> c) @@ ("test" :> t) : c \in TestConforms, t \in TestBlocks }
    \cup { ("conform" :> c) : c \in TestConforms }
    \cup { ("test" :> t) : t \in {b \in TestBlocks : DOMAIN b = {"acceptance-tests"}
                                                     /\ Len(b["acceptance-tests"]) = 1} }

(***************************************************************************)
(* Specification SpecTests: a source is loaded and its acceptance tests     *)
(* are checked.                                                             *)
(***************************************************************************)
InitTests ==
    /\ IdleJob
    /\ IdleTests
    /\ IdleEsri
    /\ IdleRow
    /\ IdleFind
    /\ IdleCli
    /\ IdleProc

\* SourceConfig(source, layer, layersource)
LoadSource ==
    /\ source_config = NoSourceConfig
    /\ \E ds \in TestDataSources :
          source_config' = [layer |-> "addresses", data_source |-> ds]
    /\ UNCHANGED <<jobVars, runs, test_result, findVars, esriVars, cliVars, procVars>>

\* the position of the caller at which check_source_tests runs
TestsRun == proc.pc \in {"idle", "tests"}

\* check_source_tests(source_config), up to the loop: the data source is
\* replaced by its lower-cased copy when conform_smash_case does not raise
TestsBegin ==
    /\ TestsRun
    /\ source_config # NoSourceConfig
    /\ ~test_result.called
    /\ source_config' = [source_config EXCEPT !.data_source = Smashed(@)]
    /\ test_result' = TestsStart(Smashed(source_config.data_source))
    /\ UNCHANGED <<jobVars, runs, findVars, esriVars, cliVars, procVars>>

\* one pass of the loop body; uuid is what uuid4 draws in it
TestStep ==
    /\ TestsRun
    /\ test_result.called
    /\ ~test_result.done
    /\ test_result.index < Len(AcceptanceTests(SourceTest(source_config.data_source)))
    /\ \E uuid \in Uuids :
          test_result' =
              AfterFixture(test_result,
                           TestOutcome(source_config,
                                       AcceptanceTests(SourceTest(source_config.data_source))
                                           [test_result.index + 1],
                                       test_result.index, uuid),
                           uuid)
    /\ UNCHANGED <<jobVars, rowVars, findVars, esriVars, cliVars, procVars>>

\* the loop ran out of fixtures: return True, None
TestsPassed ==
    /\ TestsRun
    /\ test_result.called
    /\ ~test_result.done
    /\ test_result.index = Len(AcceptanceTests(SourceTest(source_config.data_source)))
    /\ test_result' = [test_result EXCEPT !.done = TRUE,
                                          !.verdict = TestReturn("True", NoMessage)]
    /\ UNCHANGED <<jobVars, rowVars, findVars, esriVars, cliVars, procVars>>

NextTests == LoadSource \/ TestsBegin \/ TestStep \/ TestsPassed

SpecTests == InitTests /\ [][NextTests]_vars

(***************************************************************************)
(* C4: the verdict of check_source_tests                                    *)
(***************************************************************************)
\* the fixtures of the loaded source
LoadedTests == AcceptanceTests(SourceTest(source_config.data_source))

\* fixture i (counted from 0) of the loaded source, evaluated on its own
\* with the uuid drawn for it
Fixture(i) == TestOutcome(source_config, LoadedTests[i + 1], i, test_result.uuids[i + 1])

\* what the message has to say about fixture i
FixtureNamed(message, i) ==
    /\ message.description = (IF "description" \in DOMAIN LoadedTests[i + 1]
                              THEN LoadedTests[i + 1]["description"]
                              ELSE TestIndexName[i])
    /\ message.expected = row_smash_case(LoadedTests[i + 1]["expected"])
    /\ message.actual = Fixture(i).message.actual

\* C4: check_source_tests returns (None, None) when there are no fixtures
\* or they are disabled; otherwise it evaluates the fixtures in listed
\* order, returns False with a message naming the fixture and its
\* expected and actual values at the first fixture whose actual differs
\* from expected, evaluating none after it, and returns (True, None) only
\* when every fixture matches.
C4_TestsVerdict ==
    /\ test_result.called =>
          /\ test_result.evaluated = [i \in 1..Len(test_result.evaluated) |-> i - 1]
          /\ Len(test_result.evaluated) <= Len(LoadedTests)
    /\ (test_result.called /\ test_result.done /\ test_result.verdict.err = "") =>
          LET v == test_result.verdict
              last == Len(test_result.evaluated) - 1
          IN  IF ~TestsEnabled(SourceTest(source_config.data_source)) \/ LoadedTests = <<>>
              THEN v = TestReturn("None", NoMessage) /\ test_result.evaluated = <<>>
              ELSE /\ v.passed \in {"True", "False"}
                   /\ v.passed = "False" =>
                         /\ \A i \in 0..(last - 1) : ~Fixture(i).differ
                         /\ Fixture(last).differ
                         /\ FixtureNamed(v.message, last)
                   /\ v.passed = "True" =>
                         /\ Len(test_result.evaluated) = Len(LoadedTests)
                         /\ \A i \in 0..last : ~Fixture(i).differ
                         /\ v.message = NoMessage

\* two fixtures were listed, the first one failed and the second one was
\* never evaluated
C4_Witness ==
    /\ test_result.called
    /\ test_result.done
    /\ test_result.verdict.err = ""
    /\ test_result.verdict.passed = "False"
    /\ Len(LoadedTests) = 2
    /\ test_result.evaluated = <<0>>

(***************************************************************************)
(* C13: the case of schema keys                                             *)
(***************************************************************************)
\* the source config with every key of its conform object in lower case
LowerKeyedConform(sc) ==
    IF "conform" \notin DOMAIN sc.data_source THEN sc
    ELSE [sc EXCEPT !.data_source.conform = [n \in 1..Len(@) |-> <<Lower(@[n][1]), @[n][2]>>]]

\* the fixture with every key of its expected map in lower case
LowerKeyedExpected(test) == [test EXCEPT !["expected"] = LowerKeyed(@)]

\* the fixtures evaluated so far that have inputs and an expected map
Comparable ==
    {n \in 1..(IF test_result.called THEN Len(test_result.evaluated) ELSE 0) :
        {"inputs", "expected"} \subseteq DOMAIN LoadedTests[n]}

\* C13: schema keys are matched in any case: every evaluated fixture gets
\* the verdict it gets when the conform object's keys and the keys of its
\* expected map are spelled in lower case.
C13_SchemaKeysAnyCase ==
    \A n \in Comparable :
        LET asWritten == TestOutcome(source_config, LoadedTests[n], n - 1, test_result.uuids[n])
            lowerCase == TestOutcome(LowerKeyedConform(source_config),
                                     LowerKeyedExpected(LoadedTests[n]), n - 1,
                                     test_result.uuids[n])
        IN  /\ asWritten.err = lowerCase.err
            /\ asWritten.err = "" => asWritten.differ = lowerCase.differ


(***************************************************************************)
(* Extraction (conform.py).  A source file is a payload: its field names    *)
(* and its features in file order; a feature is [properties, geometry].     *)
(* A CSV row is a feature whose properties are the dict csv.DictReader      *)
(* yields (a row with too many cells has the extra key "restkey").          *)
(* A geometry is None, the empty text, or WKT as tokens: POINT x y, and, by *)
(* the point ogr finds on their surface, POLYGON x y and RING x y           *)
(* (a polygon with a degenerate ring); BROKEN has no such point, and        *)
(* UNREADABLE is JSON that CreateGeometryFromJson returns None for.         *)
(***************************************************************************)
ExOk(row, log) == [err |-> "", row |-> row, log |-> log]

ExRaise(e) == [err |-> e, row |-> EmptyRow, log |-> {}]

Without(row, keys) == [k \in (DOMAIN row) \ keys |-> row[k]]

\* the coordinates ogr reads as numbers
Numeric == DOMAIN RoundTable

\* ogr.CreateGeometryFromWkt(g) raises: TypeError for None, RuntimeError for
\* text that is not WKT
WktError(g) ==
    IF g = None THEN "TypeError"
    ELSE IF Len(g) = 0 THEN "RuntimeError"
    ELSE IF g[1] \notin {"POINT", "POLYGON", "RING", "BROKEN"} THEN "RuntimeError"
    ELSE IF Len(g) = 3 /\ ~({g[2], g[3]} \subseteq Numeric) THEN "RuntimeError"
    ELSE ""

\* geom.PointOnSurface(), with the envelope centre when ogr reports
\* 'Invalid number of points in LinearRing found'; any other RuntimeError
\* is raised again
PointOnSurface(g) ==
    IF g[1] = "BROKEN" THEN [err |-> "RuntimeError", geom |-> None]
    ELSE [err |-> "", geom |-> <<"POINT", g[2], g[3]>>]

\* geom.PointOnSurface() without the fallback
PointOnSurfaceStrict(g) ==
    IF g[1] \in {"BROKEN", "RING"} THEN [err |-> "RuntimeError", geom |-> None]
    ELSE [err |-> "", geom |-> <<"POINT", g[2], g[3]>>]

\* what the transformation from EPSG:2913 to EPSG:4326 makes of the
\* coordinates of the model
TransformTable ==
    ("1" :> "-119.2") @@ ("2.5" :> "1.00000004") @@ ("-119.2" :> "1") @@
    ("1.00000004" :> "2.5")

\* geom.Transform(...); geom.ExportToWkt()
Transformed(g) == IF Len(g) = 3 THEN <<g[1], TransformTable[g[2]], TransformTable[g[3]]>> ELSE g

\* the srs tags of the model whose code int() reads
KnownSrs == {"EPSG:4326", "EPSG:2913"}

\* source_x.replace(',', '.')
CommaToPeriod(x) == IF x = <<"2,5">> THEN <<"2.5">> ELSE x

\* row_extract_and_reproject, last part: for addresses the geometry is
\* replaced by a point on its surface
Centroid(sc, out_row, source_geom, log) ==
    IF sc.layer # "addresses" THEN ExOk(Put(out_row, GEOM_FIELDNAME, source_geom), log)
    ELSE IF WktError(source_geom) # "" THEN ExRaise(WktError(source_geom))
    ELSE IF PointOnSurface(source_geom).err # "" THEN ExRaise(PointOnSurface(source_geom).err)
    ELSE ExOk(Put(out_row, GEOM_FIELDNAME, PointOnSurface(source_geom).geom), log)

\* row_extract_and_reproject, the srs part: TypeError and ValueError are
\* caught and the geometry stays as it is; the handler reads source_x,
\* which is unbound unless the row came with lat/lon columns
Reproject(sc, out_row, source_geom, has_xy) ==
    LET srs == ConformGet(sc.data_source.conform, "srs")
    IN  IF srs = NoEntry THEN Centroid(sc, out_row, source_geom, {})
        ELSE IF srs.s = "EPSG:4326" THEN Centroid(sc, out_row, source_geom, {})
        ELSE IF WktError(source_geom) = "RuntimeError" THEN ExRaise("RuntimeError")
        ELSE IF WktError(source_geom) = "TypeError" \/ srs.s \notin KnownSrs
        THEN IF has_xy
             THEN Centroid(sc, out_row, source_geom, {"DEBUG: Could not reproject"})
             ELSE ExRaise("UnboundLocalError")
        ELSE Centroid(sc, out_row, Transformed(source_geom), {})

\* source_row[lon_name] if lon_name in source_row else source_row[lon_name.upper()]
Column(source_row, name) ==
    IF name \in DOMAIN source_row THEN [err |-> "", v |-> source_row[name]]
    ELSE IF Upper(name) \in DOMAIN source_row THEN [err |-> "", v |-> source_row[Upper(name)]]
    ELSE [err |-> "KeyError", v |-> None]

\* row_extract_and_reproject, the lat/lon part, with the columns' values
FromXY(sc, out_row, source_x, source_y) ==
    IF source_x = None \/ source_y = None THEN ExOk(Put(out_row, GEOM_FIELDNAME, None), {})
    ELSE IF CommaToPeriod(source_x) = <<>> \/ CommaToPeriod(source_y) = <<>>
    THEN ExOk(Put(out_row, GEOM_FIELDNAME, None), {})
    ELSE Reproject(sc, out_row,
                   <<"POINT", CommaToPeriod(source_x)[1], CommaToPeriod(source_y)[1]>>, TRUE)

FromLatLon(sc, source_row, out_row, lat_name, lon_name) ==
    IF Column(source_row, lon_name).err # "" \/ Column(source_row, lat_name).err # ""
    THEN ExRaise("KeyError")
    ELSE FromXY(sc,
                Without(out_row, {lon_name, Upper(lon_name), lat_name, Upper(lat_name)}),
                Column(source_row, lon_name).v, Column(source_row, lat_name).v)

\* row_extract_and_reproject once source_geom is read from the row
WithSourceGeom(sc, source_row, out_row, source_geom) ==
    IF source_geom = <<"POINT", "nan", "nan">>
    THEN ExOk(Put(out_row, GEOM_FIELDNAME, None), {})
    ELSE IF source_geom = None
            /\ ConformGet(sc.data_source.conform, "lat") # NoEntry
            /\ ConformGet(sc.data_source.conform, "lon") # NoEntry
    THEN FromLatLon(sc, source_row, out_row,
                    ConformGet(sc.data_source.conform, "lat").s,
                    ConformGet(sc.data_source.conform, "lon").s)
    ELSE Reproject(sc, out_row, source_geom, FALSE)

\* row_extract_and_reproject
row_extract_and_reproject(sc, source_row) ==
    IF "protocol" \notin DOMAIN sc.data_source THEN ExRaise("KeyError")
    ELSE WithSourceGeom(sc, source_row,
                        Without(source_row, IF Get(source_row, "OA:geom") # None
                                            THEN {"OA:geom"} ELSE {}),
                        IF Get(source_row, GEOM_FIELDNAME) # None
                        THEN source_row[GEOM_FIELDNAME]
                        ELSE IF Truthy(Get(source_row, "OA:geom"))
                        THEN source_row["OA:geom"]
                        ELSE None)


\* csv.DictWriter.writerow: a key that is no field of the writer raises
\* ValueError
WriterRejects(row, fieldnames) == ~(DOMAIN row \subseteq fieldnames)

\* what csv.DictWriter.writerow puts in the file and csv.DictReader reads
\* back from it: a field the row lacks, and None, are the empty text
CsvWritten(row, fieldnames) ==
    [f \in fieldnames |-> IF f \in DOMAIN row /\ row[f] # None THEN row[f] ELSE <<>>]

\* what one pass of an extraction loop does with its feature: it goes on
\* without writing, writes a row, or lets an exception through
Skipped(log) == [kind |-> "skip", row |-> EmptyRow, err |-> "", log |-> log]

Wrote(row, log) == [kind |-> "write", row |-> row, err |-> "", log |-> log]

Raised(e, log) == [kind |-> "raise", row |-> EmptyRow, err |-> e, log |-> log]

\* writer.writerow(out_row), outside the try block
WriteRow(row, fieldnames, log) ==
    IF WriterRejects(row, fieldnames) THEN Raised("ValueError", log)
    ELSE Wrote(CsvWritten(row, fieldnames), log)

\* csv_source_to_csv, the try block of the loop once
\* row_extract_and_reproject returned or raised r
AfterExtractRow(r, fieldnames) ==
    IF r.err # "" THEN Raised(r.err, {"ERROR: Error in row"})
    ELSE WriteRow(r.row, fieldnames, r.log)

\* csv_source_to_csv, one pass of the loop: a row with another number of
\* cells than the header is skipped
ExtractCsvRow(sc, num_fields, fieldnames, source_row) ==
    IF Cardinality(DOMAIN source_row) # num_fields
    THEN Skipped({"DEBUG: Skipping row"})
    ELSE AfterExtractRow(row_extract_and_reproject(sc, source_row), fieldnames)

\* csv_source_to_csv, the header of the extracted file
CsvOutFieldnames(data_source, fieldnames) ==
    IF data_source.protocol = "ESRI"
    THEN {IF f = "OA:geom" THEN GEOM_FIELDNAME ELSE f : f \in fieldnames}
    ELSE (fieldnames \ {ConformGet(data_source.conform, "lon").s,
                        ConformGet(data_source.conform, "lat").s,
                        Upper(ConformGet(data_source.conform, "lon").s),
                        Upper(ConformGet(data_source.conform, "lat").s)})
         \cup {GEOM_FIELDNAME}

\* csv_source_to_csv before its loop: the exception it raises, "" for none
CsvOpenError(data_source) ==
    IF ConformGet(data_source.conform, "skiplines") # NoEntry THEN "AssertionError"
    ELSE IF "protocol" \notin DOMAIN data_source THEN "KeyError"
    ELSE IF data_source.protocol # "ESRI"
            /\ (ConformGet(data_source.conform, "lon") = NoEntry
                \/ ConformGet(data_source.conform, "lat") = NoEntry)
    THEN "KeyError"
    ELSE ""

\* geojson_source_to_csv, the loop body once the geometry is read
GeojsonGeom(sc, row, geom, fieldnames) ==
    IF sc.layer = "addresses" /\ PointOnSurfaceStrict(geom).err # ""
    THEN Raised(PointOnSurfaceStrict(geom).err, {"ERROR: Error in row"})
    ELSE WriteRow(Put(row, GEOM_FIELDNAME,
                      IF sc.layer = "addresses" THEN PointOnSurfaceStrict(geom).geom ELSE geom),
                  fieldnames, {})

\* geojson_source_to_csv, one pass of the loop: a feature without a
\* geometry, or with one ogr cannot read, is passed over
ExtractGeojsonFeature(sc, fieldnames, feature) ==
    IF feature.geometry = None THEN Skipped({})
    ELSE IF feature.geometry = <<"UNREADABLE">> THEN Skipped({})
    ELSE GeojsonGeom(sc, feature.properties, feature.geometry, fieldnames)

\* ogr_source_to_csv, the loop body once the geometry is transformed
OgrGeom(sc, row, geom, fieldnames) ==
    IF sc.layer = "addresses" /\ PointOnSurface(geom).err # ""
    THEN Raised(PointOnSurface(geom).err, {})
    ELSE WriteRow(Put(row, GEOM_FIELDNAME,
                      IF sc.layer = "addresses" THEN PointOnSurface(geom).geom ELSE geom),
                  fieldnames, {})

\* ogr_source_to_csv, one pass of the loop
ExtractOgrFeature(sc, fieldnames, feature) ==
    IF feature.geometry = None
    THEN WriteRow(Put(feature.properties, GEOM_FIELDNAME, None), fieldnames, {})
    ELSE OgrGeom(sc, feature.properties,
                 IF ConformGet(sc.data_source.conform, "srs") # NoEntry
                    /\ ConformGet(sc.data_source.conform, "srs").s # "EPSG:4326"
                 THEN Transformed(feature.geometry) ELSE feature.geometry,
                 fieldnames)

\* ogr_source_to_csv before its loop: the exception it raises, "" for none;
\* prj tells whether the layer comes with a projection.  Every srs tag of
\* the model starts with EPSG:, so int() is what fails on a bad one.
OgrOpenError(data_source, prj) ==
    LET srs == ConformGet(data_source.conform, "srs")
    IN  IF srs # NoEntry /\ srs.s \notin KnownSrs THEN "ValueError"
        ELSE IF srs = NoEntry /\ ~prj THEN "Exception"
        ELSE ""

\* extract_to_source_csv: the function that reads the source
Extractor(data_source) ==
    LET format_string == ConformGet(data_source.conform, "format").s
    IN  IF "protocol" \notin DOMAIN data_source THEN "KeyError"
        ELSE IF format_string \in {"shapefile", "xml", "gdb"} THEN "ogr_source_to_csv"
        ELSE IF format_string = "csv" THEN "csv_source_to_csv"
        ELSE IF format_string = "geojson" /\ data_source.protocol = "ESRI"
        THEN "csv_source_to_csv"
        ELSE IF format_string = "geojson" THEN "geojson_source_to_csv"
        ELSE "Exception"

\* the extractor's steps before its loop: the exception raised, "" for none
OpenError(data_source, prj) ==
    IF Extractor(data_source) \in {"KeyError", "Exception"} THEN Extractor(data_source)
    ELSE IF Extractor(data_source) = "csv_source_to_csv" THEN CsvOpenError(data_source)
    ELSE IF Extractor(data_source) = "ogr_source_to_csv" THEN OgrOpenError(data_source, prj)
    ELSE ""

\* the header the extractor writes: the one of geojson_source_to_csv comes
\* from the first feature
OutFieldnames(data_source, contents) ==
    IF Extractor(data_source) = "csv_source_to_csv"
    THEN CsvOutFieldnames(data_source, SeqSet(contents.fieldnames))
    ELSE IF Extractor(data_source) = "ogr_source_to_csv"
    THEN SeqSet(contents.fieldnames) \cup {GEOM_FIELDNAME}
    ELSE IF contents.features = <<>> THEN {}
    ELSE DOMAIN contents.features[1].properties \cup {GEOM_FIELDNAME}

\* one pass of the extractor's loop
ExtractFeature(sc, num_fields, fieldnames, feature) ==
    IF Extractor(sc.data_source) = "csv_source_to_csv"
    THEN ExtractCsvRow(sc, num_fields, fieldnames, feature.properties)
    ELSE IF Extractor(sc.data_source) = "ogr_source_to_csv"
    THEN ExtractOgrFeature(sc, fieldnames, feature)
    ELSE ExtractGeojsonFeature(sc, fieldnames, feature)


(***************************************************************************)
(* conform_cli, step by step.  cli.pc is its position: start, the           *)
(* extractor before its loop (extract_open), in its loop (extract),         *)
(* transform_to_out_csv before its loop (transform_open), in its loop       *)
(* (transform), the finally clause, and the way conform_cli was left        *)
(* (returned with cli.rc, or raised with cli.err).                          *)
(***************************************************************************)
\* where tempfile.mkstemp and mkdtemp put a file when no dir is given
SystemTmp == "gettempdir"

\* the directory process() makes for the invocation: mkdtemp(prefix=
\* 'process_one-', dir=destination)
TempDir == "destination/process_one-"

\* the work directory of conform(): mkdtemp(prefix='conform-', dir=destdir)
ConformWork == "destination/process_one-/conform-"

File(dir, path) == [dir |-> dir, path |-> path]

\* mkstemp(prefix='openaddr-extracted-', suffix='.csv')
ExtractPath == File(SystemTmp, "openaddr-extracted-.csv")

\* the position of the caller at which conform_cli runs
CliRuns == proc.pc \in {"idle", "convert"}

\* conform_cli up to the try block
ConformCliStart ==
    /\ CliRuns
    /\ cli.pc = "start"
    /\ IF "conform" \notin DOMAIN source_config.data_source
       THEN /\ cli' = [cli EXCEPT !.pc = "returned", !.rc = 1]
            /\ UNCHANGED <<logged, files>>
       ELSE IF ConformGet(source_config.data_source.conform, "format") = NoEntry
               \/ ConformGet(source_config.data_source.conform, "format").s \notin CliFormats
       THEN /\ cli' = [cli EXCEPT !.pc = "returned", !.rc = 1]
            /\ logged' = logged \cup {"WARNING: Skipping file with unknown conform"}
            /\ UNCHANGED files
       ELSE /\ cli' = [cli EXCEPT !.pc = "extract_open"]
            /\ logged' = logged \cup {"DEBUG: extract temp file"}
            /\ files' = files \cup {ExtractPath}
    /\ UNCHANGED <<jobVars, payload, extract_csv, out_csv, rowVars, findVars, esriVars, testVars, procVars>>

\* extract_to_source_csv and the extractor it calls, up to the loop
ExtractOpen ==
    /\ CliRuns
    /\ cli.pc = "extract_open"
    /\ IF OpenError(source_config.data_source, payload.prj) # ""
       THEN cli' = [cli EXCEPT !.pc = "finally", !.failed_in = "extract",
                               !.err = OpenError(source_config.data_source, payload.prj)]
       ELSE cli' = [cli EXCEPT !.pc = "extract", !.i = 0,
                               !.fieldnames = OutFieldnames(source_config.data_source, payload)]
    /\ extract_csv' = <<>>
    /\ UNCHANGED <<jobVars, payload, out_csv, logged, files, rowVars, findVars, esriVars, testVars, procVars>>

\* what the pass of the loop for feature cli.i + 1 does
ThisPass ==
    ExtractFeature(source_config, Len(payload.fieldnames), cli.fieldnames,
                   payload.features[cli.i + 1])

\* one pass of the extractor's loop
ExtractRow ==
    /\ CliRuns
    /\ cli.pc = "extract"
    /\ cli.i < Len(payload.features)
    /\ logged' = logged \cup ThisPass.log
    /\ IF ThisPass.kind = "raise"
       THEN /\ cli' = [cli EXCEPT !.pc = "finally", !.failed_in = "extract",
                                  !.err = ThisPass.err, !.i = @ + 1]
            /\ UNCHANGED extract_csv
       ELSE /\ cli' = [cli EXCEPT !.i = @ + 1]
            /\ extract_csv' = IF ThisPass.kind = "write"
                              THEN Append(extract_csv, ThisPass.row)
                              ELSE extract_csv
    /\ UNCHANGED <<jobVars, payload, out_csv, files, rowVars, findVars, esriVars, testVars, procVars>>

\* the extractor's loop ran out of features
ExtractEnd ==
    /\ CliRuns
    /\ cli.pc = "extract"
    /\ cli.i = Len(payload.features)
    /\ cli' = [cli EXCEPT !.pc = "transform_open"]
    /\ UNCHANGED <<jobVars, payload, extract_csv, out_csv, logged, files,
                   rowVars, findVars, esriVars, testVars, procVars>>

\* a fault: the schema columns come before GEOM and HASH
OutHeaderSchemaFirst(sc) == SCHEMA(sc.layer) \o <<"GEOM", "HASH">>

\* the field names of the output writer: ['GEOM', 'HASH', *source_config.SCHEMA]
OutHeader(sc) == <<"GEOM", "HASH">> \o SCHEMA(sc.layer)

\* transform_to_out_csv up to its loop: the data source is replaced by its
\* lower-cased copy, the destination is opened and the header is written
TransformOpen ==
    /\ CliRuns
    /\ cli.pc = "transform_open"
    /\ source_config' = [source_config EXCEPT !.data_source = conform_smash_case(@)]
    /\ cli' = [cli EXCEPT !.pc = "transform", !.i = 0, !.header = OutHeader(source_config)]
    /\ out_csv' = <<>>
    /\ files' = files \cup {cli.dest_path}
    /\ UNCHANGED <<jobVars, payload, extract_csv, logged, runs, findVars, esriVars, testVars, procVars>>

\* transform_to_out_csv, the loop body once row_transform_and_convert
\* returned or raised r: nothing catches what it raises
AfterTransformRow(call, r) ==
    IF r.err # ""
    THEN [call EXCEPT !.pc = "finally", !.failed_in = "transform", !.err = r.err, !.i = @ + 1]
    ELSE [call EXCEPT !.i = @ + 1]

\* one pass of the loop of transform_to_out_csv; uuid is what uuid4 draws
TransformRow ==
    /\ CliRuns
    /\ cli.pc = "transform"
    /\ cli.i < Len(extract_csv)
    /\ \E uuid \in Uuids :
          /\ cli' = AfterTransformRow(cli, row_transform_and_convert(
                                              source_config, extract_csv[cli.i + 1], uuid))
          /\ out_csv' = IF row_transform_and_convert(
                               source_config, extract_csv[cli.i + 1], uuid).err = ""
                        THEN Append(out_csv,
                                    CsvWritten(row_transform_and_convert(
                                                   source_config, extract_csv[cli.i + 1], uuid).row,
                                               SeqSet(cli.header)))
                        ELSE out_csv
    /\ UNCHANGED <<jobVars, payload, extract_csv, logged, files, rowVars, findVars, esriVars, testVars, procVars>>

\* the loop of transform_to_out_csv ran out of rows
TransformEnd ==
    /\ CliRuns
    /\ cli.pc = "transform"
    /\ cli.i = Len(extract_csv)
    /\ cli' = [cli EXCEPT !.pc = "finally"]
    /\ UNCHANGED <<jobVars, payload, extract_csv, out_csv, logged, files,
                   rowVars, findVars, esriVars, testVars, procVars>>

\* a fault: the file is removed only when nothing was raised
RemovedOnReturn(paths, err) == IF err = "" THEN paths \ {ExtractPath} ELSE paths

\* the files left by the finally clause of conform_cli, whatever was raised
ExtractRemoved(paths, err) == paths \ {ExtractPath}

\* the finally clause, os.remove(extract_path), and the way out
CliFinally ==
    /\ CliRuns
    /\ cli.pc = "finally"
    /\ files' = ExtractRemoved(files, cli.err)
    /\ cli' = IF cli.err = "" THEN [cli EXCEPT !.pc = "returned", !.rc = 0]
              ELSE [cli EXCEPT !.pc = "raised"]
    /\ UNCHANGED <<jobVars, payload, extract_csv, out_csv, logged, rowVars, findVars, esriVars, testVars, procVars>>

\* conform_cli(source_config, source_path, dest_path) is entered
CliCall(dest_path) ==
    [pc |-> "start", i |-> 0, fieldnames |-> {}, header |-> <<>>, err |-> "", failed_in |-> "",
     rc |-> -1, dest_path |-> dest_path]

NextCli ==
    \/ ConformCliStart
    \/ ExtractOpen
    \/ ExtractRow
    \/ ExtractEnd
    \/ TransformOpen
    \/ TransformRow
    \/ TransformEnd
    \/ CliFinally

(***************************************************************************)
(* Inputs of conform_cli: source files of each format and the data sources  *)
(* that read them.                                                          *)
(***************************************************************************)
MaxFeatures == 2

Feature(properties, geometry) == [properties |-> properties, geometry |-> geometry]

Props(n, s) == ("n" :> n) @@ ("s" :> s)

\* rows of a CSV file with lat/lon columns: good ones, blank fields, a
\* decimal comma, a latitude that is no number, a row with a cell too many
\* and one with cells missing
CsvRows ==
    { Feature(Props(<<"1">>, <<"1", " ", "a">>) @@ ("lat" :> <<"2.5">>) @@ ("lon" :> <<"1">>), None),
      Feature(Props(<<"2">>, <<"2", " ", "b">>) @@ ("lat" :> <<"2,5">>) @@ ("lon" :> <<"1">>), None),
      Feature(Props(<<>>, <<" ">>) @@ ("lat" :> <<"1">>) @@ ("lon" :> <<"1">>), None),
      Feature(Props(<<"3">>, <<"c">>) @@ ("lat" :> <<>>) @@ ("lon" :> <<"1">>), None),
      Feature(Props(<<"3">>, <<"c">>) @@ ("lat" :> <<"abc">>) @@ ("lon" :> <<"1">>), None),
      Feature(Props(<<"3">>, <<"c">>) @@ ("lat" :> <<"1">>) @@ ("lon" :> <<"1">>)
                  @@ ("restkey" :> <<"x">>), None),
      Feature(Props(<<"3">>, <<"c">>) @@ ("lat" :> None) @@ ("lon" :> None), None) }

\* rows of the CSV file the ESRI downloader writes
EsriRows ==
    { Feature(Props(<<"1">>, <<"1", " ", "a">>) @@ ("OA:GEOM" :> g), None) :
          g \in { Pt("1", "2.5"), <<"POLYGON", "1", "2.5">>, <<"RING", "1", "1">>,
                  <<"BROKEN">>, Pt("nan", "nan"), <<>> } }

\* features of a GeoJSON file: the last has a property the first lacks
GeojsonFeatures ==
    { Feature(Props(<<"1">>, <<"1", " ", "a">>), g) :
          g \in { Pt("1", "2.5"), <<"POLYGON", "1", "2.5">>, <<"RING", "1", "1">>,
                  <<"UNREADABLE">>, None } }
    \cup { Feature(Props(<<"2">>, <<"2", " ", "b">>) @@ ("x" :> <<"z">>), Pt("1", "1")) }

\* features of a shapefile layer
OgrFeatures ==
    { Feature(Props(<<"1">>, <<"1", " ", "a">>), g) :
          g \in { Pt("1", "2.5"), <<"POLYGON", "1", "2.5">>, <<"RING", "1", "1">>,
                  <<"BROKEN">>, None } }

FeatureLists(features) == UNION { [1..n -> features] : n \in 0..MaxFeatures }

\* what the conform says of the output fields: plain names, the first
\* non-blank of two fields, a regexp without a pattern, and a regexp on a
\* field no row has
FieldConforms ==
    { << <<"number", StrV("n")>>, <<"street", StrV("s")>> >>,
      << <<"number", [t |-> "dict", d |-> [function |-> "first_non_empty",
                                         fields |-> <<"n", "s">>]]>>,
         <<"street", StrV("s")>> >>,
      << <<"number", Fn1("regexp", "s")>> >>,
      << <<"number", [t |-> "dict", d |-> [function |-> "regexp", field |-> "zz",
                                         pattern |-> PatFirstWord]]>> >> }

LatLon == << <<"lat", StrV("lat")>>, <<"lon", StrV("lon")>> >>

Srs(srs) == << <<"srs", StrV(srs)>> >>

\* the srs tags: none, two that ogr knows, one whose code is no number
SrsTags == { <<>>, Srs("EPSG:4326"), Srs("EPSG:2913"), Srs("EPSG:x") }

DataSource(conform, protocol) ==
    [conform |-> conform, protocol |-> protocol, fingerprint |-> <<"0", "0">>]

\* a call of conform_cli: the SourceConfig and the contents of source_path
Case(layer, data_source, fieldnames, features, prj) ==
    [layer |-> layer, data_source |-> data_source,
     payload |-> [fieldnames |-> fieldnames, features |-> features, prj |-> prj]]

CsvCases ==
    { Case(layer, DataSource(Conf("csv") \o LatLon \o srs \o c, "http"),
           <<"n", "s", "lat", "lon">>, l, TRUE) :
          layer \in Layers, srs \in SrsTags, c \in FieldConforms, l \in FeatureLists(CsvRows) }

EsriCases ==
    { Case(layer, DataSource(Conf(format) \o srs \o c, "ESRI"),
           <<"n", "s", "OA:GEOM">>, l, TRUE) :
          layer \in Layers, format \in {"csv", "geojson"}, srs \in {<<>>, Srs("EPSG:x")},
          c \in FieldConforms, l \in FeatureLists(EsriRows) }

GeojsonCases ==
    { Case(layer, DataSource(Conf("geojson") \o c, "http"), <<>>, l, TRUE) :
          layer \in Layers, c \in FieldConforms, l \in FeatureLists(GeojsonFeatures) }

OgrCases ==
    { Case(layer, DataSource(Conf("shapefile") \o srs \o c, "http"), <<"n", "s">>, l, prj) :
          layer \in Layers, srs \in SrsTags, c \in FieldConforms,
          l \in FeatureLists(OgrFeatures), prj \in BOOLEAN }

\* sources conform_cli does not convert, or cannot start on
OtherCases ==
    { Case("addresses", [protocol |-> "http"], <<>>, <<>>, TRUE),
      Case("addresses", DataSource(Conf("kml"), "http"), <<>>, <<>>, TRUE),
      Case("addresses", DataSource(<< <<"number", StrV("n")>> >>, "http"), <<>>, <<>>, TRUE),
      Case("addresses", [conform |-> Conf("csv") \o LatLon], <<"lat", "lon">>, <<>>, TRUE),
      Case("addresses", DataSource(Conf("csv"), "http"), <<"lat", "lon">>, <<>>, TRUE) }

ConformCases == CsvCases \cup EsriCases \cup GeojsonCases \cup OgrCases \cup OtherCases

\* where ConvertToCsvTask.convert has conform_cli write its output
ConvertedPath == File(ConformWork, "converted/a.csv")

(***************************************************************************)
(* Specification SpecConform: one call of conform_cli.                      *)
(***************************************************************************)
InitConform ==
    /\ IdleJob
    /\ \E c \in ConformCases :
          /\ source_config = [layer |-> c.layer, data_source |-> c.data_source]
          /\ payload = c.payload
    /\ cli = CliCall(ConvertedPath)
    /\ extract_csv = <<>>
    /\ out_csv = <<>>
    /\ logged = {}
    /\ files = {File(ConformWork, "a")}
    /\ runs = <<>>
    /\ IdleFind
    /\ IdleTests
    /\ IdleEsri
    /\ IdleProc

SpecConform == InitConform /\ [][NextCli]_vars

(***************************************************************************)
(* C6: a row whose transformation fails                                     *)
(***************************************************************************)
\* conform_cli was left, by return or by exception
CliLeft == cli.pc \in {"returned", "raised"}

\* row_transform_and_convert on row i of the extracted CSV; the data source
\* carries a fingerprint, so the uuid drawn does not enter the result
TransformOf(i) == row_transform_and_convert(source_config, extract_csv[i], <<"u", "1">>)

\* C6: once conform_cli is left after a complete extraction, no row has
\* aborted the transformation, and every extracted row whose own
\* transformation succeeds is written to the output CSV.
C6_BadRowSkipped ==
    (CliLeft /\ cli.rc # 1 /\ cli.failed_in # "extract") =>
        /\ cli.failed_in # "transform"
        /\ \A i \in 1..Len(extract_csv) :
              TransformOf(i).err = "" =>
                  \E j \in 1..Len(out_csv) :
                      out_csv[j] = CsvWritten(TransformOf(i).row, DOMAIN TransformOf(i).row)

(***************************************************************************)
(* C7: a feature whose geometry fails                                       *)
(***************************************************************************)
\* what ogr raises on a geometry it cannot parse or find a point on, and
\* what the handler of a failed reprojection raises
GeometryErrors == {"RuntimeError", "TypeError", "UnboundLocalError"}

\* C7: no pass of an extractor's loop aborts the extraction with a
\* geometry failure.
C7_BadGeometrySkipped ==
    ~(/\ cli.pc = "raised"
      /\ cli.failed_in = "extract"
      /\ cli.i > 0
      /\ cli.err \in GeometryErrors)

(***************************************************************************)
(* C21: CSV rows with another number of cells than the header               *)
(***************************************************************************)
\* csv.DictReader read a row with more cells than the header (the extra
\* cells are under restkey) or with fewer (the missing ones read as None)
MoreCells(properties) == "restkey" \in DOMAIN properties

FewerCells(properties) == \E k \in DOMAIN properties : properties[k] = None

\* the loop of csv_source_to_csv is about to read feature cli.i + 1
CsvPassDue ==
    /\ cli.pc = "extract"
    /\ cli.i < Len(payload.features)
    /\ Extractor(source_config.data_source) = "csv_source_to_csv"

\* C21: tabular extraction skips, and logs, every data row whose number of
\* columns differs from the header's, with more columns or with fewer, and
\* goes on with the following rows: the pass over such a row writes nothing
\* to the intermediate output and does not abort the extraction.
C21_MismatchedRowSkipped ==
    [][(/\ CsvPassDue
        /\ \/ MoreCells(payload.features[cli.i + 1].properties)
           \/ FewerCells(payload.features[cli.i + 1].properties))
       => /\ extract_csv' = extract_csv
          /\ "DEBUG: Skipping row" \in logged'
          /\ cli'.pc = "extract"]_vars

(***************************************************************************)
(* C22: the header and the columns of the output CSV                        *)
(***************************************************************************)
\* the columns of the output of each layer, spelled out
ExpectedColumns ==
    IF source_config.layer = "addresses"
    THEN <<"GEOM", "HASH", "NUMBER", "STREET", "UNIT", "CITY", "DISTRICT", "REGION",
           "POSTCODE", "ID">>
    ELSE <<"GEOM", "HASH", "PID">>

\* conform_cli has opened its output file
OutputOpened == cli.pc # "idle" /\ cli.dest_path \in files

CacheWork == "destination/process_one-/cache-"

\* statedir of write_state
StateDir == "destination/source_id/layer/name"

InTempDir(f) == f.dir \in {TempDir, CacheWork, ConformWork}

\* CacheResult.empty() and ConformResult.empty()
EmptyCacheResult == [cache |-> None, fingerprint |-> None]

EmptyConformResult == [path |-> None, feat_count |-> None]

\* the locals of process() when the try block is entered
ProcessCall ==
    [pc |-> "start", exc |-> "", tests_passed |-> "None", skipped |-> FALSE,
     cache_result |-> EmptyCacheResult, conform_result |-> EmptyConformResult,
     preview_path |-> None, pmtiles_path |-> None, handler |-> "none", records |-> 0,
     invoked |-> {}, found |-> Found(NoPath, ""), state |-> [written |-> FALSE]]

SkipFlagIgnored(data_source) == ""

\* what process raises on the data source it found: SourceSaysSkip when the
\* source says to skip
SkipCheck(data_source) ==
    IF Truthy(Get(data_source, "skip")) THEN "SourceSaysSkip" ELSE ""

\* process up to check_source_tests: the directory of the invocation, the
\* copy of the source, the log file and its handler, the SourceConfig (the
\* source may lack the layer asked for: ValueError), the skip flag
ProcessStart ==
    /\ proc.pc = "start"
    /\ files' = files \cup {File(TempDir, ""), File(TempDir, "source.json"),
                            File(TempDir, "tmp.log")}
    /\ IF job.has_layer
       THEN /\ source_config' = [layer |-> job.layer, data_source |-> job.data_source]
            /\ proc' = IF SkipCheck(job.data_source) # ""
                       THEN [proc EXCEPT !.pc = "except", !.exc = SkipCheck(job.data_source),
                                         !.handler = "attached"]
                       ELSE [proc EXCEPT !.pc = "tests", !.handler = "attached"]
            /\ UNCHANGED logged
       ELSE /\ proc' = [proc EXCEPT !.pc = "except", !.exc = "ValueError",
                                    !.handler = "attached"]
            /\ logged' = logged \cup {"ERROR: Nothing processed: layer does not exist in source"}
            /\ UNCHANGED source_config
    /\ UNCHANGED <<jobVars, payload, cli, extract_csv, out_csv, runs, job, findVars, esriVars, testVars>>

\* a fault: a failed acceptance test does not stop the source
TestsGateOpen(verdict) == IF verdict.err # "" THEN "Exception" ELSE ""

\* what process raises after check_source_tests: what the call raised, or
\* SourceTestsFailed when it returned False
TestsGate(verdict) ==
    IF verdict.err # "" THEN "Exception"
    ELSE IF verdict.passed = "False" THEN "SourceTestsFailed"
    ELSE ""

\* tests_passed, failure_details = check_source_tests(source_config)
AfterTests ==
    /\ proc.pc = "tests"
    /\ test_result.called
    /\ test_result.done
    /\ proc' = [proc EXCEPT
                  !.tests_passed = IF test_result.verdict.err = ""
                                   THEN test_result.verdict.passed ELSE @,
                  !.exc = TestsGate(test_result.verdict),
                  !.pc = IF TestsGate(test_result.verdict) = "" THEN "cache" ELSE "except"]
    /\ UNCHANGED <<jobVars, cliVars, rowVars, job, findVars, esriVars, testVars>>

\* cache(): the download goes to the cache- directory and the file is moved
\* to cached/; guess_url_file_extension keeps the first bytes of an http
\* URL with a query in a file it makes with mkstemp(); DownloadError is
\* logged by process and raised again
Cache ==
    /\ proc.pc = "cache"
    /\ IF job.download = "DownloadError"
       THEN /\ proc' = [proc EXCEPT !.pc = "except", !.exc = "DownloadError",
                                    !.invoked = @ \cup {"cache"}]
            /\ logged' = logged \cup {"WARNING: Could not download source data"}
            /\ files' = files \cup {File(CacheWork, "")}
            /\ UNCHANGED <<payload, source_config>>
       ELSE /\ proc' = [proc EXCEPT !.pc = "conform", !.invoked = @ \cup {"cache"},
                                    !.cache_result = [cache |-> <<"file://cached/a">>,
                                                      fingerprint |-> job.fingerprint]]
            /\ logged' = logged \cup {"INFO: Cached data"}
            /\ files' = files \cup {File(TempDir, "cached/a")}
                              \cup (IF job.url_plain THEN {} ELSE {File(SystemTmp, "tmp")})
            /\ payload' = job.remote
            /\ source_config' =
                  [source_config EXCEPT !.data_source =
                      ("cache" :> <<"file://cached/a">>) @@ ("fingerprint" :> job.fingerprint) @@ @]
    /\ UNCHANGED <<jobVars, cli, extract_csv, out_csv, runs, job, findVars, esriVars, testVars>>

\* the level and text of what find_source_path logs
FindLog(message) ==
    IF message = "" THEN {}
    ELSE IF message = "Selected for source" THEN {"DEBUG: " \o message}
    ELSE {"WARNING: " \o message}

\* conform() up to conform_cli: the conform- directory, the copy of the
\* cached file, the decompressed paths, the converted directory, and
\* find_source_path, which may find no file or raise
ConformBegin ==
    /\ proc.pc = "conform"
    /\ proc' = [proc EXCEPT !.pc = "convert", !.invoked = @ \cup {"conform"},
                            !.found = find_source_path(source_config.data_source, <<job.path>>)]
    /\ logged' = logged \cup FindLog(find_source_path(source_config.data_source, <<job.path>>).log)
    /\ files' = files \cup {File(ConformWork, ""), File(ConformWork, "a"),
                            File(ConformWork, "converted")}
    /\ cli' = IF find_source_path(source_config.data_source, <<job.path>>).path # NoPath
              THEN CliCall(ConvertedPath)
              ELSE cli
    /\ UNCHANGED <<jobVars, payload, extract_csv, out_csv, rowVars, job, findVars, esriVars, testVars>>

\* what conform() logs once task4.convert returned or raised
ConvertLog(raised, addr_count) ==
    IF raised THEN {"WARNING: Error doing conform; skipping"}
    ELSE IF addr_count > 0 THEN {"INFO: Converted"}
    ELSE {"WARNING: Found no addresses in source data"}

\* the line breaks inside a value: the writer quotes the value and puts
\* them in the file as they are
Breaks(v) == Len(SelectSeq(v, LAMBDA ch : ch = "\n"))

\* the lines a row takes in the file
RECURSIVE RowLines(_, _)
RowLines(row, fieldnames) ==
    IF fieldnames = <<>> THEN 1
    ELSE Breaks(row[Head(fieldnames)]) + RowLines(row, Tail(fieldnames))

\* sum(1 for line in file): the lines of the output CSV, header included
RECURSIVE FileLines(_, _)
FileLines(header, rows) ==
    IF rows = <<>> THEN 1
    ELSE RowLines(Head(rows), header) + FileLines(header, Tail(rows))

\* ConvertToCsvTask.convert after conform_cli: the path of the CSV and the
\* number of its lines less the header; raised when find_source_path or
\* conform_cli raised
Converted(found_path, call, rows) ==
    [raised |-> found_path.err # "" \/ call.pc = "raised",
     rc |-> IF call.pc = "returned" THEN call.rc ELSE 1,
     addr_count |-> IF call.pc = "returned" /\ call.rc = 0
                    THEN FileLines(call.header, rows) - 1 ELSE 0]

\* conform() after task4.convert: the CSV is moved to out.csv when it has
\* rows and the conform- directory is removed; then the rest of the try
\* block of process
ConformEndWith(c) ==
    /\ logged' = logged \cup ConvertLog(c.raised, c.addr_count)
                        \cup (IF c.addr_count > 0 THEN {"INFO: Processed data"}
                              ELSE {"WARNING: Nothing processed"})
    /\ files' = {f \in files : f.dir # ConformWork}
                    \cup (IF c.addr_count > 0 THEN {File(TempDir, "out.csv")} ELSE {})
    /\ proc' = [proc EXCEPT !.pc = IF c.addr_count > 0 THEN "preview" ELSE "finally",
                            !.conform_result =
                                [path |-> IF c.addr_count > 0 THEN <<"out.csv">> ELSE None,
                                 feat_count |-> c.addr_count]]

ConformEnd ==
    /\ proc.pc = "convert"
    /\ cli.pc \in {"idle", "returned", "raised"}
    /\ ConformEndWith(Converted(proc.found, cli, out_csv))
    /\ UNCHANGED <<jobVars, payload, cli, extract_csv, out_csv, rowVars, job, findVars, esriVars, testVars>>

\* process after conform() gave a path: render_preview when a preview is
\* asked for and there is a key; preview.render may raise
RenderPreview ==
    /\ proc.pc = "preview"
    /\ IF job.do_preview /\ job.protomaps_key
       THEN IF job.render = "ok"
            THEN /\ proc' = [proc EXCEPT !.pc = "pmtiles", !.invoked = @ \cup {"preview"},
                                         !.preview_path = <<"preview.png">>]
                 /\ files' = files \cup {File(TempDir, "preview.png")}
                 /\ logged' = logged \cup {"INFO: Preview image"}
            ELSE /\ proc' = [proc EXCEPT !.pc = "except", !.exc = "Exception",
                                         !.invoked = @ \cup {"preview"}]
                 /\ UNCHANGED <<files, logged>>
       ELSE /\ proc' = [proc EXCEPT !.pc = "pmtiles"]
            /\ logged' = logged \cup {"WARNING: Nothing previewed"}
            /\ UNCHANGED files
    /\ UNCHANGED <<jobVars, payload, cli, extract_csv, out_csv, rowVars, job, findVars, esriVars, testVars>>

\* render_pmtiles when tiles are asked for: what slippymap.generate raises
\* is logged and None is returned
RenderPmtiles ==
    /\ proc.pc = "pmtiles"
    /\ IF job.do_pmtiles
       THEN IF job.render = "ok"
            THEN /\ proc' = [proc EXCEPT !.pc = "finally", !.invoked = @ \cup {"pmtiles"},
                                         !.pmtiles_path = <<"slippymap.pmtiles">>]
                 /\ files' = files \cup {File(TempDir, "slippymap.pmtiles")}
                 /\ logged' = logged \cup {"INFO: pmtiles file"}
            ELSE /\ proc' = [proc EXCEPT !.pc = "finally", !.invoked = @ \cup {"pmtiles"}]
                 /\ logged' = logged \cup {"ERROR: in render_pmtiles",
                                           "WARNING: No pmtiles generated"}
                 /\ UNCHANGED files
       ELSE /\ proc' = [proc EXCEPT !.pc = "finally"]
            /\ UNCHANGED <<files, logged>>
    /\ UNCHANGED <<jobVars, payload, cli, extract_csv, out_csv, rowVars, job, findVars, esriVars, testVars>>

\* the except clauses of process
HandleException ==
    /\ proc.pc = "except"
    /\ IF proc.exc = "SourceSaysSkip"
       THEN /\ proc' = [proc EXCEPT !.pc = "finally", !.skipped = TRUE]
            /\ logged' = logged \cup {"INFO: Source says to skip in process_one.process()"}
       ELSE IF proc.exc = "SourceTestsFailed"
       THEN /\ proc' = [proc EXCEPT !.pc = "finally", !.tests_passed = "False"]
            /\ logged' = logged \cup {"WARNING: A source test failed in process_one.process()"}
       ELSE /\ proc' = [proc EXCEPT !.pc = "finally"]
            /\ logged' = logged \cup {"WARNING: Error in process_one.process()"}
    /\ UNCHANGED <<jobVars, payload, cli, extract_csv, out_csv, files, rowVars, job, findVars, esriVars, testVars>>

\* the finally clause of process: the log handler is removed
Finally ==
    /\ proc.pc = "finally"
    /\ proc' = [proc EXCEPT !.pc = "write_state", !.handler = "removed"]
    /\ UNCHANGED <<jobVars, cliVars, rowVars, job, findVars, esriVars, testVars>>

\* 'needle' in log_contents: a logged line holds the needle when it is the
\* needle or starts with it
Occurs(needle, log_contents) ==
    \/ needle \in log_contents
    \/ /\ needle = "WARNING: A source test failed"
       /\ "WARNING: A source test failed in process_one.process()" \in log_contents

\* find_source_problem: the first needle found in the log decides, then
\* the coverage of the source; "None" is no problem
find_source_problem(log_contents, source) ==
    IF Occurs("WARNING: A source test failed", log_contents)
    THEN "An acceptance test failed"
    ELSE IF Occurs("WARNING: Source is missing a conform object", log_contents)
    THEN "Source is missing a conform object"
    ELSE IF Occurs("WARNING: Unknown source conform protocol", log_contents)
    THEN "Unknown source conform protocol"
    ELSE IF Occurs("WARNING: Unknown source conform format", log_contents)
    THEN "Unknown source conform format"
    ELSE IF Occurs("WARNING: Unknown source conform type", log_contents)
    THEN "Unknown source conform type"
    ELSE IF Occurs("WARNING: Found no features in source data", log_contents)
    THEN "Found no features in source data"
    ELSE IF Occurs("WARNING: Could not download source data", log_contents)
    THEN "Could not download source data"
    ELSE IF Occurs("WARNING: Error doing conform; skipping", log_contents)
    THEN "Could not conform source data"
    ELSE IF ~source.coverage THEN "Missing or incomplete coverage"
    ELSE "None"

\* write_state: the copies in the state directory and the state written
StateProblemFromLog(skipped, log_contents, source) == find_source_problem(log_contents, source)

\* write_state: the source problem of a skipped source, else what
\* find_source_problem finds in the log
StateProblem(skipped, log_contents, source) ==
    IF skipped THEN "Source says to skip" ELSE find_source_problem(log_contents, source)

WriteState ==
    /\ proc.pc = "write_state"
    /\ files' = files \cup {File(StateDir, "output.txt"), File(StateDir, "index.json")}
                      \cup (IF proc.cache_result.cache # None
                            THEN {File(StateDir, "cache")} ELSE {})
                      \cup (IF proc.conform_result.path # None
                            THEN {File(StateDir, "out.csv")} ELSE {})
                      \cup (IF proc.preview_path # None
                            THEN {File(StateDir, "preview.png")} ELSE {})
                      \cup (IF proc.pmtiles_path # None
                            THEN {File(StateDir, "slippymap.pmtiles")} ELSE {})
    /\ proc' = [proc EXCEPT
                  !.pc = "cleanup",
                  !.records = @ + 1,
                  !.state = [written |-> TRUE,
                             skipped |-> proc.skipped,
                             cache |-> proc.cache_result.cache,
                             feat_count |-> proc.conform_result.feat_count,
                             processed |-> proc.conform_result.path,
                             preview |-> proc.preview_path,
                             pmtiles |-> proc.pmtiles_path,
                             problem |-> StateProblem(proc.skipped, logged, job.source),
                             tests_passed |-> proc.tests_passed]]
    /\ UNCHANGED <<jobVars, payload, cli, extract_csv, out_csv, logged, rowVars, job, findVars, esriVars, testVars>>

\* rmtree(temp_dir)
Cleanup ==
    /\ proc.pc = "cleanup"
    /\ files' = {f \in files : ~InTempDir(f)}
    /\ proc' = [proc EXCEPT !.pc = "done"]
    /\ UNCHANGED <<jobVars, payload, cli, extract_csv, out_csv, logged, rowVars, job, findVars, esriVars, testVars>>

\* the invocation is stopped where it is
Kill ==
    /\ proc.pc \notin {"idle", "start", "done", "stopped", "removed"}
    /\ proc' = [proc EXCEPT !.pc = "stopped"]
    /\ UNCHANGED <<jobVars, cliVars, rowVars, job, findVars, esriVars, testVars>>

\* the directory of a stopped invocation is removed from outside
RemoveTempDir ==
    /\ proc.pc = "stopped"
    /\ files' = {f \in files : ~InTempDir(f)}
    /\ proc' = [proc EXCEPT !.pc = "removed"]
    /\ UNCHANGED <<jobVars, payload, cli, extract_csv, out_csv, logged, rowVars, job, findVars, esriVars, testVars>>

(***************************************************************************)
(* Inputs of process: a source file, its layer's data source, and what the  *)
(* download gives.                                                          *)
(***************************************************************************)
Contents(fieldnames, features) == [fieldnames |-> fieldnames, features |-> features, prj |-> TRUE]

GoodRow == Feature(Props(<<"1">>, <<"1", " ", "a">>) @@ ("lat" :> <<"2.5">>) @@ ("lon" :> <<"1">>), None)

\* a row whose street cell holds a line break (a quoted cell of two lines)
TwoLineRow ==
    Feature(Props(<<"2">>, <<"a", "\n", "b">>) @@ ("lat" :> <<"2.5">>) @@ ("lon" :> <<"1">>), None)

\* data sources with the file each one's download gives and its name once
\* decompressed: CSV files with good rows, with none, with a row whose
\* transformation fails before a good one, with a latitude that is no
\* number, with nothing but a row too long, with a cell of two lines; a
\* GeoJSON file whose feature has no geometry; a shapefile; a format nobody
\* knows; no conform object; a source that says skip
Downloads ==
    { [data_source |-> [conform |-> Conf("csv") \o LatLon \o c, protocol |-> "http"],
       remote |-> Contents(<<"n", "s", "lat", "lon">>, l), path |-> "d/a.csv"] :
          c \in FieldConforms, l \in FeatureLists({GoodRow}) }
    \cup { [data_source |-> [conform |-> Conf("csv") \o LatLon \o c, protocol |-> "http"],
            remote |-> Contents(<<"n", "s", "lat", "lon">>, <<r, GoodRow>>), path |-> "d/a.csv"] :
              c \in FieldConforms, r \in CsvRows \ {GoodRow} }
    \cup { [data_source |-> [conform |-> Conf("csv") \o LatLon \o c, protocol |-> "http"],
            remote |-> Contents(<<"n", "s", "lat", "lon">>, <<TwoLineRow>>), path |-> "d/a.csv"] :
              c \in FieldConforms }
    \cup { [data_source |-> [conform |-> Conf("geojson") \o c, protocol |-> "http"],
            remote |-> Contents(<<>>, <<f>>), path |-> "d/a.json"] :
              c \in FieldConforms, f \in GeojsonFeatures }
    \cup { [data_source |-> [conform |-> Conf("shapefile") \o c, protocol |-> "http"],
            remote |-> Contents(<<"n", "s">>, <<f>>), path |-> "d/a.shp"] :
              c \in FieldConforms, f \in OgrFeatures }
    \cup { [data_source |-> ds, remote |-> NoPayload, path |-> "d/a.csv"] :
              ds \in { [conform |-> Conf("kml"), protocol |-> "http"],
                       [protocol |-> "http"],
                       [conform |-> Conf("csv") \o LatLon, protocol |-> "http", skip |-> <<"1">>] } }

\* the test blocks of at most one fixture
ProcessTests ==
    { b \in TestBlocks : "acceptance-tests" \in DOMAIN b /\ Len(b["acceptance-tests"]) <= 1 }

\* each download with no test block and with each of the test blocks
TestedDownloads ==
    Downloads \cup { [d EXCEPT !.data_source = ("test" :> t) @@ @] :
                         d \in Downloads, t \in ProcessTests }

\* what is asked of the rendering, and how it goes: nothing, a preview and
\* tiles that succeed, a preview that raises, tiles that fail with no
\* preview for want of a key
Rendering(do_preview, protomaps_key, do_pmtiles, render) ==
    [do_preview |-> do_preview, protomaps_key |-> protomaps_key,
     do_pmtiles |-> do_pmtiles, render |-> render]

NoRendering == Rendering(FALSE, FALSE, FALSE, "ok")

Renderings ==
    { Rendering(TRUE, TRUE, TRUE, "ok"), Rendering(TRUE, TRUE, TRUE, "raise"),
      Rendering(TRUE, FALSE, TRUE, "raise") }

Job(coverage, d, download, url_plain, has_layer, r) ==
    [source |-> [coverage |-> coverage], layer |-> "addresses",
     data_source |-> d.data_source, remote |-> d.remote, path |-> d.path,
     download |-> download, url_plain |-> url_plain, fingerprint |-> <<"a", "b">>,
     has_layer |-> has_layer, do_preview |-> r.do_preview,
     protomaps_key |-> r.protomaps_key, do_pmtiles |-> r.do_pmtiles, render |-> r.render]

\* the invocations: every download with and without coverage, with a plain
\* URL or not, downloaded or not, and nothing to render; the untested
\* downloads with each rendering; a source without the layer asked for
ProcessJobs ==
    { Job(coverage, d, download, url_plain, TRUE, NoRendering) :
          coverage \in BOOLEAN, url_plain \in BOOLEAN, download \in {"ok", "DownloadError"},
          d \in TestedDownloads }
    \cup { Job(TRUE, d, "ok", TRUE, TRUE, r) : d \in Downloads, r \in Renderings }
    \cup { Job(coverage, d, "ok", TRUE, FALSE, NoRendering) :
              coverage \in BOOLEAN, d \in Downloads }

(***************************************************************************)
(* Specification SpecProcess: one invocation of process, which may be       *)
(* stopped at any step.                                                     *)
(***************************************************************************)
InitProcess ==
    /\ IdleJob
    /\ job \in ProcessJobs
    /\ proc = ProcessCall
    /\ IdleRow
    /\ IdleFind
    /\ IdleTests
    /\ IdleEsri
    /\ IdleCli

NextProcess ==
    \/ ProcessStart
    \/ TestsBegin
    \/ TestStep
    \/ TestsPassed
    \/ AfterTests
    \/ Cache
    \/ ConformBegin
    \/ ConformCliStart
    \/ ExtractOpen
    \/ ExtractRow
    \/ ExtractEnd
    \/ TransformOpen
    \/ TransformRow
    \/ TransformEnd
    \/ CliFinally
    \/ ConformEnd
    \/ RenderPreview
    \/ RenderPmtiles
    \/ HandleException
    \/ Finally
    \/ WriteState
    \/ Cleanup
    \/ Kill
    \/ RemoveTempDir

SpecProcess == InitProcess /\ [][NextProcess]_vars

(***************************************************************************)
(* C3: failed acceptance tests                                              *)
(***************************************************************************)
\* check_source_tests returned passed = False to process
TestsFailed ==
    /\ proc.pc # "idle"
    /\ test_result.called
    /\ test_result.done
    /\ test_result.verdict.err = ""
    /\ test_result.verdict.passed = "False"

\* C3: when the acceptance tests return passed = False, cache() and
\* conform() are never invoked (nor conform_cli), and the state written
\* records tests passed False, no processed output and the source problem
\* 'An acceptance test failed'.
C3_FailedTestsStop ==
    TestsFailed =>
        /\ proc.invoked = {}
        /\ cli.pc = "idle"
        /\ proc.state.written =>
              /\ proc.state.tests_passed = "False"
              /\ proc.state.processed = None
              /\ proc.state.problem = "An acceptance test failed"

\* an invocation whose tests failed ran to its end and wrote its state
C3_Witness ==
    /\ TestsFailed
    /\ proc.pc = "done"
    /\ proc.state.written
    /\ proc.state.problem = "An acceptance test failed"
    /\ job.download = "ok"

(***************************************************************************)
(* C5: where the temporary files are                                        *)
(***************************************************************************)
\* C5: every file or directory of the invocation outside the state
\* directory lies in the directory of the invocation, and once a stopped
\* invocation's directory is removed nothing of it is left elsewhere.
C5_ArtifactsInProcessDir ==
    /\ \A f \in files : f.dir # StateDir => InTempDir(f)
    /\ proc.pc = "removed" => \A f \in files : f.dir = StateDir

(***************************************************************************)
(* C8: a source without rows                                                *)
(***************************************************************************)
\* C8: when extraction and transformation finished without error and
\* wrote no row, the state written reports the problem 'Found no features
\* in source data' and no processed output.
C8_NoFeaturesReported ==
    (/\ proc.pc # "idle"
     /\ proc.state.written
     /\ cli.pc = "returned"
     /\ cli.rc = 0
     /\ out_csv = <<>>) =>
        /\ proc.state.problem = "Found no features in source data"
        /\ proc.state.processed = None


(***************************************************************************)
(* EsriRestDownloadTask.field_names_to_request (cache.py).  A field name is *)
(* a string; NoName is Python's None where a name is looked for.  A set of  *)
(* names is a set, the list returned a sequence.                            *)
(***************************************************************************)
NoName == "None"

\* every field name of the model in code point order
NameOrder ==
    <<"", "Number", "Street", "a", "a1", "a2", "b", "b1", "c", "foo", "number", "street">>

\* sorted(names)
Sorted(names) == SelectSeq(NameOrder, LAMBDA x : x \in names)

FieldsOk(fields) == [err |-> "", fields |-> fields]

FieldsRaise(e) == [err |-> e, fields |-> {}]

RECURSIVE fields_from_conform_function(_)
RECURSIVE ChainFields(_, _, _)

\* the loop over v['functions']: the fields of each step that is a function
\* node, less the chain's variable
ChainFields(functions, user_vars, fields) ==
    IF functions = <<>> THEN FieldsOk(fields)
    ELSE IF "function" \notin DOMAIN Head(functions)
    THEN ChainFields(Tail(functions), user_vars, fields)
    ELSE IF fields_from_conform_function(Head(functions)).err # ""
    THEN fields_from_conform_function(Head(functions))
    ELSE ChainFields(Tail(functions), user_vars,
                     fields \cup (fields_from_conform_function(Head(functions)).fields
                                  \ user_vars))

\* fields_from_conform_function: v['fields'], v['variable'] and
\* v['functions'] raise KeyError when absent, v.get('field') gives None
fields_from_conform_function(v) ==
    IF "function" \notin DOMAIN v THEN FieldsOk({})
    ELSE IF v.function \in {"join", "format"}
    THEN IF "fields" \in DOMAIN v THEN FieldsOk(SeqSet(v.fields)) ELSE FieldsRaise("KeyError")
    ELSE IF v.function = "chain"
    THEN IF "variable" \notin DOMAIN v \/ "functions" \notin DOMAIN v
         THEN FieldsRaise("KeyError")
         ELSE ChainFields(v.functions, {v.variable}, {})
    ELSE IF v.function = "constant" THEN FieldsOk({})
    ELSE FieldsOk({IF "field" \in DOMAIN v THEN v.field ELSE NoName})

\* the loop over conform.items(): k in source_config.SCHEMA compares the key
\* as it is written with the schema's upper-case names
RECURSIVE RequestLoop(_, _, _)
RequestLoop(sc, items, fields) ==
    IF items = <<>> THEN FieldsOk(fields)
    ELSE IF Head(items)[1] \notin SeqSet(SCHEMA(sc.layer))
    THEN RequestLoop(sc, Tail(items), fields)
    ELSE IF Head(items)[2].t = "dict"
    THEN IF "function" \notin DOMAIN Head(items)[2].d
         THEN RequestLoop(sc, Tail(items), fields)
         ELSE IF fields_from_conform_function(Head(items)[2].d).err # ""
         THEN fields_from_conform_function(Head(items)[2].d)
         ELSE RequestLoop(sc, Tail(items),
                          fields \cup fields_from_conform_function(Head(items)[2].d).fields)
    ELSE IF Head(items)[2].t = "list"
    THEN RequestLoop(sc, Tail(items), fields \cup SeqSet(Head(items)[2].l))
    ELSE RequestLoop(sc, Tail(items), fields \cup {Head(items)[2].s})

\* what field_names_to_request returns (None or a list) or raises
RequestNone == [err |-> "", none |-> TRUE, names |-> <<>>]

RequestList(names) == [err |-> "", none |-> FALSE, names |-> names]

RequestRaise(e) == [err |-> e, none |-> FALSE, names |-> <<>>]

\* the end of field_names_to_request: sorted() raises TypeError when None
\* is to be compared with a str, filter(None, ...) drops '' and None
RequestOf(r) ==
    IF r.err # "" THEN RequestRaise(r.err)
    ELSE IF r.fields = {} THEN RequestNone
    ELSE IF NoName \in r.fields /\ Cardinality(r.fields) > 1 THEN RequestRaise("TypeError")
    ELSE RequestList(Sorted(r.fields \ {"", NoName}))

field_names_to_request(sc) ==
    IF "conform" \notin DOMAIN sc.data_source THEN RequestNone
    ELSE IF sc.data_source.conform = <<>> THEN RequestNone
    ELSE RequestOf(RequestLoop(sc, sc.data_source.conform, {}))

\* EsriRestDownloadTask.download up to its first request
Download ==
    /\ proc = NoCall
    /\ source_config # NoSourceConfig
    /\ ~query_fields.called
    /\ query_fields' = [called |-> TRUE, result |-> field_names_to_request(source_config)]
    /\ UNCHANGED <<jobVars, rowVars, findVars, testVars, cliVars, procVars>>

\* the values a conform entry may have: direct names (one in mixed case,
\* one blank), lists (one with a repeated, one with a blank name) and
\* function nodes, among them chains with and without a variable
Node(d) == [t |-> "dict", d |-> d]

\* a chain that formats a1 and a2 into its variable foo and removes b1 from
\* the end of it
FooChain ==
    Node([function |-> "chain", variable |-> "foo",
          functions |-> << [function |-> "format", fields |-> <<"a1", "a2">>,
                            format |-> <<"$", "1", " ", "$", "2">>],
                           [function |-> "remove_postfix", field |-> "foo",
                            field_to_remove |-> "b1"] >>])

EsriValues ==
    { StrV("c"), StrV("Street"), StrV(""),
      [t |-> "list", l |-> <<"a", "b", "a">>],
      [t |-> "list", l |-> <<"b", "", "a">>],
      Node([function |-> "regexp", field |-> "a", pattern |-> PatFirstWord]),
      Node([function |-> "regexp", pattern |-> PatFirstWord]),
      Node([function |-> "join", fields |-> <<"b", "a">>]),
      Node([function |-> "format", fields |-> <<"a1", "a2">>, format |-> <<"$", "1", " ", "$", "2">>]),
      Node([function |-> "first_non_empty", fields |-> <<"a", "b">>]),
      Node([function |-> "constant", value |-> "x"]),
      FooChain,
      Node([function |-> "chain", variable |-> "foo",
            functions |-> << [function |-> "postfixed_street", field |-> "Street"],
                             [function |-> "remove_postfix", field |-> "foo"] >>]),
      Node([function |-> "chain",
            functions |-> << [function |-> "regexp", field |-> "a",
                              pattern |-> PatFirstWord] >>]) }

\* conform objects keyed in lower case, as sources are written, and in the
\* schema's upper case; alone, after a direct name, and after a key that is
\* no schema key
EsriConforms ==
    UNION { { << <<k[1], v>> >>,
              << <<k[2], StrV("c")>>, <<k[1], v>> >>,
              << <<"type", StrV("csv")>>, <<k[1], v>> >> } :
            k \in { <<"street", "number">>, <<"STREET", "NUMBER">> }, v \in EsriValues }

EsriDataSources ==
    { [conform |-> c, protocol |-> "ESRI"] : c \in EsriConforms }
    \cup { [conform |-> <<>>, protocol |-> "ESRI"], [protocol |-> "ESRI"] }

(***************************************************************************)
(* Specification SpecEsri: an ESRI source is downloaded, as the tests call  *)
(* the task or after check_source_tests has lower-cased its conform.        *)
(***************************************************************************)
InitEsri ==
    /\ IdleJob
    /\ source_config \in [layer : {"addresses"}, data_source : EsriDataSources]
    /\ runs = <<>>
    /\ IdleEsri
    /\ IdleFind
    /\ IdleTests
    /\ IdleCli
    /\ IdleProc

NextEsri == TestsBegin \/ Download

SpecEsri == InitEsri /\ [][NextEsri]_vars

(***************************************************************************)
(* C14, C15: the field names requested                                      *)
(***************************************************************************)
\* the source fields a function node refers to by field and fields, its
\* chains' steps included and their variables excluded
RECURSIVE FunctionRefs(_)
FunctionRefs(fxn) ==
    (IF "field" \in DOMAIN fxn THEN {fxn.field} ELSE {})
    \cup (IF "fields" \in DOMAIN fxn THEN SeqSet(fxn.fields) ELSE {})
    \cup (IF "functions" \in DOMAIN fxn
          THEN UNION {FunctionRefs(fxn.functions[n]) : n \in 1..Len(fxn.functions)}
               \ (IF "variable" \in DOMAIN fxn THEN {fxn.variable} ELSE {})
          ELSE {})

\* the source fields it refers to by field_to_remove
RECURSIVE RemoveRefs(_)
RemoveRefs(fxn) ==
    (IF "field_to_remove" \in DOMAIN fxn THEN {fxn.field_to_remove} ELSE {})
    \cup (IF "functions" \in DOMAIN fxn
          THEN UNION {RemoveRefs(fxn.functions[n]) : n \in 1..Len(fxn.functions)}
          ELSE {})

EntryRefs(v) ==
    IF v.t = "str" THEN {v.s}
    ELSE IF v.t = "list" THEN SeqSet(v.l)
    ELSE FunctionRefs(v.d)

\* the entries of the conform object keyed by a schema key, in any case
SchemaEntries(sc) ==
    {e \in SeqSet(sc.data_source.conform) : InSchema(sc.layer, Upper(e[1]))}

\* the names that are to be requested, and those that may be
Referenced(sc) ==
    {Lower(x) : x \in UNION {EntryRefs(e[2]) : e \in SchemaEntries(sc)}} \ {"", NoName}

Removable(sc) ==
    {Lower(x) : x \in UNION {RemoveRefs(e[2].d) : e \in {x \in SchemaEntries(sc) : x[2].t = "dict"}}}

\* a list of lower-case names in sorted order without repeats or blanks
Normalised(names) ==
    /\ names = Sorted(SeqSet(names))
    /\ \A n \in 1..Len(names) : names[n] = Lower(names[n]) /\ names[n] \notin {"", NoName}

\* C14: field_names_to_request returns None without a conform block;
\* otherwise it does not raise and what it returns is the deduplicated,
\* lower-cased, sorted list without blanks of the fields that the entries
\* keyed by schema keys refer to: direct names, list elements, the field
\* and fields of function nodes and of the steps of chains with or without
\* a variable (names referred to by field_to_remove may be among them; None
\* stands for the empty list).
C14_FieldNamesRequested ==
    query_fields.called =>
        IF "conform" \notin DOMAIN source_config.data_source
        THEN query_fields.result = RequestNone
        ELSE /\ query_fields.result.err = ""
             /\ Normalised(query_fields.result.names)
             /\ Referenced(source_config) \subseteq SeqSet(query_fields.result.names)
             /\ SeqSet(query_fields.result.names)
                    \subseteq Referenced(source_config) \cup Removable(source_config)

\* C15: for a conform whose only entry is the chain with variable foo over
\* format{a1, a2} and remove_postfix{foo, b1}, the names requested are
\* exactly a1, a2 and b1.
C15_ChainFieldSet ==
    (/\ query_fields.called
     /\ "conform" \in DOMAIN source_config.data_source
     /\ source_config.data_source.conform \in
            { << <<"street", FooChain>> >>, << <<"STREET", FooChain>> >> })
    => /\ query_fields.result.err = ""
       /\ SeqSet(query_fields.result.names) = {"a1", "a2", "b1"}

(***************************************************************************)
(* C23: the feature count of a converted source                             *)
(***************************************************************************)
\* C23: the feature count reported for a converted source equals the
\* number of data rows written to its output CSV.
C23_FeatureCountIsRows ==
    (proc.pc # "idle" /\ proc.state.written /\ cli.pc = "returned" /\ cli.rc = 0)
    => proc.state.feat_count = Len(out_csv)

(***************************************************************************)
(* C27: the files of conform_cli                                            *)
(***************************************************************************)
\* the only file there is when conform_cli is entered: the source
SourceFiles == {File(ConformWork, "a")}

\* C27: once conform_cli is left, by return or by exception, the extracted
\* file it made is gone; when it returned 1, for a source without conform
\* object or with an unknown format, no file was made and nothing was
\* extracted or written
C27_ExtractRemoved ==
    /\ (proc.pc = "idle" /\ CliLeft) => ExtractPath \notin files
    /\ (proc.pc = "idle" /\ CliLeft /\ cli.rc = 1) =>
          /\ files = SourceFiles
          /\ extract_csv = <<>>
          /\ out_csv = <<>>

\* conform_cli was left by an exception of the transformation, after the
\* output was opened
C27_Witness ==
    /\ proc.pc = "idle"
    /\ cli.pc = "raised"
    /\ cli.failed_in = "transform"
    /\ cli.dest_path \in files
    /\ ExtractPath \notin files

\* conform_cli returned 1 and only the source is there
C27_ReturnedOne ==
    /\ proc.pc = "idle"
    /\ cli.pc = "returned"
    /\ cli.rc = 1
    /\ files = SourceFiles

(***************************************************************************)
(* C26: the variable of a chain after each step                             *)
(***************************************************************************)
\* the row the first k steps of the chain leave
RowAfter(sc, row, key, fxn, k) ==
    LET wkey == WorkingKey(sc, row, key, fxn)
    IN  ChainLoop(sc, IF wkey # key THEN Put(row, OaKey(wkey), <<>>) ELSE row,
                  wkey, SubSeq(fxn.functions, 1, k))

\* what step k returns on the row the steps before it left
StepResult(sc, row, key, fxn, k) ==
    row_function(sc, RowAfter(sc, row, key, fxn, k - 1).row,
                 WorkingKey(sc, row, key, fxn), fxn.functions[k])

\* the step wrote its derived key: it did not raise, and it is no join that
\* failed on an absent field
StepWrote(sc, row, key, fxn, k) ==
    /\ RowAfter(sc, row, key, fxn, k - 1).err = ""
    /\ StepResult(sc, row, key, fxn, k).err = ""
    /\ fxn.functions[k].function = "join" =>
           AllPresent(RowAfter(sc, row, key, fxn, k - 1).row, fxn.functions[k].fields)

\* C26: in a chain, after every step that wrote a result under its derived
\* key, an empty string included, the row holds that result under the
\* chain's variable (under the chain's key when it declares none), so the
\* next step reads it there
C26_StepResultCarried ==
    \A i \in RunIds : \A c \in Chains \cup {WordChain} :
        (/\ source_config.layer = "addresses"
         /\ ConformGet(Run(i).authored, "number") = [t |-> "dict", d |-> c])
        => LET row == row_smash_case(Run(i).input)
               wkey == WorkingKey(source_config, row, "number", c)
           IN  \A k \in 1..Len(c.functions) :
                   StepWrote(source_config, row, "number", c, k) =>
                       Get(RowAfter(source_config, row, "number", c, k).row, wkey)
                           = StepResult(source_config, row, "number", c, k).row[OaKey(wkey)]

(***************************************************************************)
(* C24: the order of the steps of process                                   *)
(***************************************************************************)
StepBegins(step) == step \notin proc.invoked /\ step \in proc'.invoked

TestsBegun == ~test_result.called /\ test_result'.called

SaysSkip == Truthy(Get(job.data_source, "skip"))

\* C24: process runs the skip check, the acceptance tests, cache, conform
\* and the rendering in this order, and a step runs only when every
\* earlier one allowed it: for a source that says to skip neither the
\* tests nor any later step runs; cache begins only after tests that did
\* not fail; conform only after cache gave a cache location; the preview
\* and the tiles only after conform gave a path
C24_StepsInOrder ==
    [][proc.pc # "idle" =>
         /\ SaysSkip => (~test_result'.called /\ proc'.invoked = {})
         /\ TestsBegun => proc.invoked = {}
         /\ StepBegins("cache") =>
               /\ proc.invoked = {}
               /\ test_result.called /\ test_result.done
               /\ proc.tests_passed # "False"
         /\ StepBegins("conform") =>
               /\ proc.invoked = {"cache"}
               /\ proc.cache_result.cache # None
         /\ StepBegins("preview") =>
               /\ proc.invoked = {"cache", "conform"}
               /\ proc.conform_result.path # None
         /\ StepBegins("pmtiles") =>
               /\ {"cache", "conform"} \subseteq proc.invoked
               /\ proc.conform_result.path # None]_vars

\* process ended after all five steps ran
C24_Witness ==
    /\ proc.pc = "done"
    /\ test_result.called
    /\ proc.invoked = {"cache", "conform", "preview", "pmtiles"}

C25_RaisedWitness ==
    /\ proc.pc = "done"
    /\ proc.exc = "Exception"
    /\ "preview" \in proc.invoked
    /\ ~proc.state.skipped

(***************************************************************************)
(* C28: what a row function changes                                         *)
(***************************************************************************)
NonChainFunctions == KnownFunctions \ {"chain"}

\* after differs from before at most by the value under key
OnlyWrote(before, after, key) ==
    /\ DOMAIN before \subseteq DOMAIN after
    /\ DOMAIN after \subseteq DOMAIN before \cup {key}
    /\ \A x \in DOMAIN before \ {key} : after[x] = before[x]

\* the row the loop of row_transform_and_convert hands to item j of the
\* conform object
WorkingRow(i, j) ==
    ConformLoop(source_config, row_smash_case(Run(i).input),
                SubSeq(source_config.data_source.conform, 1, j - 1))

\* what the merge or the function of item j returns on it
ItemResult(i, j) ==
    LET item == source_config.data_source.conform[j]
    IN  IF item[2].t = "list" THEN row_merge(source_config, WorkingRow(i, j).row, item[1])
        ELSE row_function(source_config, WorkingRow(i, j).row, item[1], item[2].d)

\* item j is a merge or a function other than chain, under a key of the schema
NonChainItem(j) ==
    LET item == source_config.data_source.conform[j]
    IN  /\ InSchema(source_config.layer, Upper(item[1]))
        /\ \/ item[2].t = "list"
           \/ /\ item[2].t = "dict"
              /\ "function" \in DOMAIN item[2].d
              /\ item[2].d.function \in NonChainFunctions

\* C28: a merge or a row function other than chain that returns changes
\* the working row at most by the one derived key oa:<key> of the key it
\* was called for: every source field and every other derived key is as it
\* was; so is it for the steps of a chain, called for the chain's working
\* key
C28_OnlyDerivedKey ==
    \A i \in RunIds :
        /\ \A j \in 1..Len(source_config.data_source.conform) :
               (/\ NonChainItem(j)
                /\ WorkingRow(i, j).err = ""
                /\ ItemResult(i, j).err = "")
               => OnlyWrote(WorkingRow(i, j).row, ItemResult(i, j).row,
                            OaKey(source_config.data_source.conform[j][1]))
        /\ \A c \in Chains \cup {WordChain} :
               (/\ source_config.layer = "addresses"
                /\ ConformGet(Run(i).authored, "number") = [t |-> "dict", d |-> c])
               => LET row == row_smash_case(Run(i).input)
                  IN  \A k \in 1..Len(c.functions) :
                          (/\ c.functions[k].function \in NonChainFunctions
                           /\ RowAfter(source_config, row, "number", c, k - 1).err = ""
                           /\ StepResult(source_config, row, "number", c, k).err = "")
                          => OnlyWrote(RowAfter(source_config, row, "number", c, k - 1).row,
                                       StepResult(source_config, row, "number", c, k).row,
                                       OaKey(WorkingKey(source_config, row, "number", c)))

\* the unit was cut out of a row that held the derived number and street
\* already
C28_Witness ==
    \E i \in RunIds :
        /\ Run(i).authored = SplitConform
        /\ source_config.layer = "addresses"
        /\ NonChainItem(3)
        /\ {"oa:number", "oa:street"} \subseteq DOMAIN WorkingRow(i, 3).row
        /\ ItemResult(i, 3).err = ""
        /\ ItemResult(i, 3).row["oa:unit"] = <<"#", "3">>
        /\ Run(i).res.err = ""
        /\ Run(i).res.row["UNIT"] = <<"#", "3">>

\* a merged street was written for a row
C28_MergeWitness ==
    \E i \in RunIds :
        /\ ConformGet(Run(i).authored, "street").t = "list"
        /\ source_config.layer = "addresses"
        /\ Run(i).res.err = ""
        /\ Run(i).res.row["STREET"] # <<>>

(***************************************************************************)
(* C30: remove_prefix and remove_postfix with nothing to remove             *)
(***************************************************************************)
\* C30: when the value of field_to_remove is the empty string,
\* remove_prefix and remove_postfix both give the value of field as it
\* is, the spaces at its ends included
C30_NothingToRemove ==
    \A i \in RunIds : \A function \in {"remove_prefix", "remove_postfix"} :
        (/\ ConformGet(Run(i).authored, "street") = [t |-> "dict", d |-> RemoveOf(function)]
         /\ Run(i).input \in RemoveRows
         /\ Run(i).input["n"] = <<>>)
        => row_function(source_config, Run(i).input, "street", RemoveOf(function))
               = Ok(Put(Run(i).input, "oa:street", Run(i).input["s"]))

(***************************************************************************)
(* timeout (jobs.py): one call of a function wrapped by the decorator.      *)
(* sig.handler is the disposition of SIGALRM, sig.alarm the seconds left    *)
(* on the alarm (0: none pending), sig.work the seconds the wrapped         *)
(* function still runs for, sig.ends how it ends.  sig.pc: enter (new_f is  *)
(* called), handler_set, running (f runs), f_returned, restored, returned   *)
(* and raised (new_f was left), terminated (the process is gone).           *)
(***************************************************************************)
\* SIGALRM is delivered with this disposition while the call is at pc: the
\* handler of the decorator raises JobTimeoutException where the program
\* is, the default action terminates the process, an ignored signal and
\* the handler that was there before leave the call where it is
Delivered(call) ==
    IF call.handler = "timeout_handler"
    THEN IF call.pc \in {"returned", "raised"}
         THEN [call EXCEPT !.alarm = 0, !.late = TRUE]
         ELSE [call EXCEPT !.alarm = 0, !.pc = "raised", !.exc = "JobTimeoutException"]
    ELSE IF call.handler = "SIG_DFL"
    THEN [call EXCEPT !.alarm = 0, !.pc = "terminated",
                      !.late = call.pc \in {"returned", "raised"}]
    ELSE [call EXCEPT !.alarm = 0, !.late = call.pc \in {"returned", "raised"}]

\* old_handler = signal.signal(signal.SIGALRM, timeout_handler)
SetHandler ==
    /\ sig.pc = "enter"
    /\ sig' = [sig EXCEPT !.pc = "handler_set", !.old_handler = sig.handler,
                          !.handler = "timeout_handler"]
    /\ UNCHANGED <<rowVars, findVars, testVars, cliVars, procVars, esriVars>>

\* signal.alarm(timeout), and f is called
SetAlarm ==
    /\ sig.pc = "handler_set"
    /\ sig' = [sig EXCEPT !.pc = "running", !.alarm = sig.timeout]
    /\ UNCHANGED <<rowVars, findVars, testVars, cliVars, procVars, esriVars>>

\* a second passes: f is a second further, and an alarm that runs out is
\* delivered
Tick ==
    /\ sig.pc \notin {"idle", "terminated"}
    /\ sig.clock < MaxClock
    /\ LET call == [sig EXCEPT !.clock = @ + 1,
                               !.work = IF sig.pc = "running" /\ @ > 0 THEN @ - 1 ELSE @,
                               !.alarm = IF @ > 0 THEN @ - 1 ELSE 0]
       IN  sig' = IF sig.alarm = 1 THEN Delivered(call) ELSE call
    /\ UNCHANGED <<rowVars, findVars, testVars, cliVars, procVars, esriVars>>

\* result = f(*args, **kwargs) returns
FReturns ==
    /\ sig.pc = "running"
    /\ sig.work = 0
    /\ sig.ends = "return"
    /\ sig' = [sig EXCEPT !.pc = "f_returned"]
    /\ UNCHANGED <<rowVars, findVars, testVars, cliVars, procVars, esriVars>>

\* f raises: nothing in new_f catches it
FRaises ==
    /\ sig.pc = "running"
    /\ sig.work = 0
    /\ sig.ends = "raise"
    /\ sig' = [sig EXCEPT !.pc = "raised", !.exc = "Exception"]
    /\ UNCHANGED <<rowVars, findVars, testVars, cliVars, procVars, esriVars>>

\* signal.signal(signal.SIGALRM, old_handler)
RestoreHandler ==
    /\ sig.pc = "f_returned"
    /\ sig' = [sig EXCEPT !.pc = "restored", !.handler = sig.old_handler]
    /\ UNCHANGED <<rowVars, findVars, testVars, cliVars, procVars, esriVars>>

\* signal.alarm(0); return result
CancelAlarm ==
    /\ sig.pc = "restored"
    /\ sig' = [sig EXCEPT !.pc = "returned", !.alarm = 0]
    /\ UNCHANGED <<rowVars, findVars, testVars, cliVars, procVars, esriVars>>

\* the handlers SIGALRM may have when the call is made
Handlers == {"SIG_DFL", "SIG_IGN", "handler"}

(***************************************************************************)
(* Specification SpecTimeout: one call of the wrapped function, which runs  *)
(* for up to MaxWork seconds and returns or raises, under a timeout of up   *)
(* to MaxTimeout seconds.                                                   *)
(***************************************************************************)
InitTimeout ==
    /\ \E handler \in Handlers, timeout \in 1..MaxTimeout, work \in 0..MaxWork,
          ends \in {"return", "raise"} :
          sig = [pc |-> "enter", handler |-> handler, before |-> handler,
                 old_handler |-> "", timeout |-> timeout, alarm |-> 0, work |-> work,
                 ends |-> ends, exc |-> "", clock |-> 0, late |-> FALSE]
    /\ source_config = NoSourceConfig
    /\ runs = <<>>
    /\ IdleFind
    /\ IdleTests
    /\ IdleEsri
    /\ IdleCli
    /\ IdleProc

NextTimeout ==
    \/ SetHandler
    \/ SetAlarm
    \/ Tick
    \/ FReturns
    \/ FRaises
    \/ RestoreHandler
    \/ CancelAlarm

SpecTimeout == InitTimeout /\ [][NextTimeout]_vars

(***************************************************************************)
(* C29: the handler and the alarm after the call                            *)
(***************************************************************************)
\* new_f was left, by return or by an exception
CallEnded == sig.pc \in {"returned", "raised"}

\* C29: whenever the wrapped call has ended, by return or by an exception
\* (JobTimeoutException included), the SIGALRM handler is the one that was
\* there before the call and no alarm is pending, and no alarm of the call
\* was delivered after it ended
C29_HandlerAndAlarmReset ==
    /\ (sig.pc # "idle" /\ CallEnded) => (sig.handler = sig.before /\ sig.alarm = 0)
    /\ sig.pc # "idle" => ~sig.late

====
